---- MODULE Spec2Model ----
(***************************************************************************)
(* Model of the bounded concurrent fetch-and-aggregate engine of           *)
(* Droid-keyusage-go: the worker pool (internal/services/worker_pool.go),  *)
(* the batch coordinator WorkerPool.BatchProcess, the cache-aware          *)
(* aggregator APIKeyService.GetAggregatedData and the key/usage store      *)
(* operations it relies on.                                                *)
(***************************************************************************)
EXTENDS Integers, Sequences, FiniteSets, TLC

(* ------------------------------ bounds -------------------------------- *)
\* number of keys in the key store at start
MaxKeys == 2
\* number of concurrently served GetAggregatedData requests
NumCalls == 2
\* last instant of the modelled clock (in units of five minutes)
MaxTime == 1
\* number of direct SubmitTask calls
MaxSubmits == 3
\* longest list of entries given to ImportKeys
MaxInput == 3
\* longest list of entries given to each of two concurrent ImportKeys calls
MaxConcInput == 1
\* longest list of identifiers given to BatchDeleteKeys
MaxDelete == 2
\* number of session identifiers
MaxSessions == 2
\* longest credential that is masked
MaxCred == 10
\* largest batch and largest pool for which the batch deadline is computed
MaxBatch == 140
MaxPool == 3

(* ------------------------- program parameters ------------------------- *)
\* The pool under study is NewWorkerPool(2, 1).
\* WorkerPool.maxWorkers: the number of worker goroutines
maxWorkers == 2
\* WorkerPool.queueSize: capacity of taskQueue and of resultQueue
queueSize == 1
\* APIKeyService.cacheTTL = 5 * time.Minute, in units of five minutes
cacheTTL == 1
\* BatchProcess: the base of the deadline, 30 * time.Second, in seconds
baseTimeout == 30
\* BatchProcess: the allowance per key and worker, 2 * time.Second, in seconds
perKeyTimeout == 2
\* BatchProcess: the upper limit of the deadline, 5 * time.Minute, in seconds
maxTimeout == 300
\* fetchUsageFromAPI: the timeout of one fetch, 15 * time.Second, in seconds
fetchTimeout == 15

KeyIds == 1..MaxKeys
Calls == 1..NumCalls
Workers == 1..maxWorkers

VARIABLES
    store,          \* the key store: identifiers in "keys:list"
    usageCache,     \* the usage cache: id -> storage.Usage or NoUsage
    now,            \* the clock
    taskQueue,      \* WorkerPool.taskQueue: the buffered tasks
    sendq,          \* the SubmitTask callers blocked on a full taskQueue, oldest first
    resultQueue,    \* WorkerPool.resultQueue
    shutdown,       \* WorkerPool.shutdown is closed
    queuesClosed,   \* taskQueue and resultQueue are closed
    stopPc,         \* position of the (single) Stop call
    wpc,            \* position of each worker goroutine
    wtask,          \* the task a worker holds
    wresult,        \* the result a worker is about to publish
    activeWorkers,  \* WorkerPool.activeWorkers
    processedTasks, \* WorkerPool.processedTasks
    pc,             \* position of each GetAggregatedData call
    agg,            \* locals of each GetAggregatedData call
    bp,             \* locals of the BatchProcess call made by each call
    env,            \* the environment: how the endpoint and the store may answer
    calc,           \* the last evaluation of one of the program's functions
    keyData,        \* the key store: the credential under "key:<id>", per identifier
    imp,            \* per request: the locals of its ImportKeys call
    sessions,       \* the session store: ExpiresAt under "session:<id>", per session id
    hist            \* history: what has been observed (no effect on the program)

vars == <<store, usageCache, now, taskQueue, sendq, resultQueue, shutdown, queuesClosed,
          stopPc, wpc, wtask, wresult, activeWorkers, processedTasks, pc, agg, bp,
          env, calc, keyData, imp, sessions, hist>>

poolVars == <<taskQueue, sendq, resultQueue, shutdown, queuesClosed, stopPc, wpc, wtask,
              wresult, activeWorkers, processedTasks>>

(* ------------------------------ records ------------------------------- *)
\* no record under "session:<id>"
NoSession == -1
\* nothing has been evaluated
NoCalc == [op |-> "none", M |-> 0, N |-> 0, out |-> 0]
NoTask == 0

\* models.Usage / storage.Usage: the fields the aggregator reads
Usage(id, allowance, used, updated, err) ==
    [ID |-> id, TotalAllowance |-> allowance, OrgTotalUsed |-> used,
     LastUpdated |-> updated, Error |-> err]

\* &models.Usage{ID: id, Error: msg}
ErrorUsage(id, msg) == Usage(id, 0, 0, 0, msg)

\* Result{ID, Usage, Error}; Error = "" stands for a nil error
Result(id, usage, err) == [ID |-> id, Usage |-> usage, Error |-> err]

\* a nil *Usage, an absent cache entry, an empty map slot
NoUsage == Usage(0, 0, 0, 0, "")
NoResult == Result(0, NoUsage, "")

\* what the remote metering endpoint reports for a key
RemoteAllowance(id) == 10 * id
RemoteUsed(id) == id

\* the ways one call of the remote endpoint can end
Outcomes == {"ok", "transport", "http", "decode"}

(* ---------------------------- worker pool ----------------------------- *)
\* a bug: a non-200 status is returned as a Go error, without a record
fetchUsageFromAPI_StatusAsError(id, outcome, t) ==
    CASE outcome = "transport" -> [usage |-> NoUsage, err |-> "API request failed"]
      [] outcome = "http"      -> [usage |-> NoUsage, err |-> "HTTP 500"]
      [] outcome = "decode"    -> [usage |-> NoUsage, err |-> "failed to decode response"]
      [] OTHER                 -> [usage |-> Usage(id, RemoteAllowance(id), RemoteUsed(id), t, ""),
                                   err |-> ""]

\* fetchUsageFromAPI(id, apiKey): (usage, err) for each way the call can end
fetchUsageFromAPI(id, outcome, t) ==
    CASE outcome = "transport" -> [usage |-> NoUsage, err |-> "API request failed"]
      [] outcome = "http"      -> [usage |-> ErrorUsage(id, "HTTP 500"), err |-> ""]
      [] outcome = "decode"    -> [usage |-> NoUsage, err |-> "failed to decode response"]
      [] OTHER                 -> [usage |-> Usage(id, RemoteAllowance(id), RemoteUsed(id), t, ""),
                                   err |-> ""]

\* processTask(task)
processTask(task, outcome, t) ==
    LET r == fetchUsageFromAPI(task, outcome, t)
    IN  Result(task, r.usage, r.err)

\* a bug: the worker starts without adding itself to activeWorkers
WorkerBegin_NoCount(w) ==
    /\ wpc[w] = "spawned"
    /\ wpc' = [wpc EXCEPT ![w] = "select"]
    /\ UNCHANGED <<store, usageCache, now, taskQueue, sendq, resultQueue, shutdown, queuesClosed,
                   stopPc, wtask, wresult, activeWorkers, processedTasks, pc, agg, bp, env, calc, keyData, imp, sessions, hist>>

\* worker: the goroutine starts running (atomic.AddInt32(&activeWorkers, 1))
WorkerBegin(w) ==
    /\ wpc[w] = "spawned"
    /\ wpc' = [wpc EXCEPT ![w] = "select"]
    /\ activeWorkers' = activeWorkers + 1
    /\ UNCHANGED <<store, usageCache, now, taskQueue, sendq, resultQueue, shutdown, queuesClosed,
                   stopPc, wtask, wresult, processedTasks, pc, agg, bp, env, calc, keyData, imp, sessions, hist>>

\* a bug: the receive frees a slot of the buffer and leaves the blocked senders waiting
WorkerTake_NoHandOver(w) ==
    /\ wpc[w] = "select"
    /\ taskQueue # <<>>
    /\ wtask' = [wtask EXCEPT ![w] = Head(taskQueue)]
    /\ taskQueue' = Tail(taskQueue)
    /\ wpc' = [wpc EXCEPT ![w] = "fetch"]
    /\ UNCHANGED <<store, usageCache, now, sendq, resultQueue, shutdown, queuesClosed,
                   stopPc, wresult, activeWorkers, processedTasks, pc, agg, bp, env, calc, keyData, imp, sessions, hist>>

\* worker: case task, ok := <-wp.taskQueue (a closed, drained queue gives !ok: return);
\* the receive from a full buffer completes the send of the oldest blocked sender, whose
\* SubmitTask returns nil
WorkerTake(w) ==
    /\ wpc[w] = "select"
    /\ IF taskQueue # <<>>
       THEN /\ wtask' = [wtask EXCEPT ![w] = Head(taskQueue)]
            /\ IF sendq # <<>>
               THEN /\ taskQueue' = Append(Tail(taskQueue), Head(sendq))
                    /\ sendq' = Tail(sendq)
                    /\ hist' = [hist EXCEPT !.accepted = @ + 1, !.taken = @ + 1]
               ELSE /\ taskQueue' = Tail(taskQueue)
                    /\ hist' = [hist EXCEPT !.taken = @ + 1]
                    /\ UNCHANGED sendq
            /\ wpc' = [wpc EXCEPT ![w] = "fetch"]
            /\ UNCHANGED activeWorkers
       ELSE /\ queuesClosed
            /\ wpc' = [wpc EXCEPT ![w] = "exited"]
            /\ activeWorkers' = activeWorkers - 1
            /\ UNCHANGED <<wtask, taskQueue, sendq, hist>>
    /\ UNCHANGED <<store, usageCache, now, resultQueue, shutdown, queuesClosed,
                   stopPc, wresult, processedTasks, pc, agg, bp, env, calc, keyData, imp, sessions>>

\* a bug: the task of a failed fetch is put back on the task queue
WorkerFetch_Requeue(w) ==
    /\ wpc[w] = "fetch"
    /\ \E outcome \in env.outcomes :
          /\ wresult' = [wresult EXCEPT ![w] = processTask(wtask[w], outcome, now)]
          /\ taskQueue' = IF outcome # "ok" /\ Len(taskQueue) < queueSize
                          THEN Append(taskQueue, wtask[w]) ELSE taskQueue
    /\ wtask' = [wtask EXCEPT ![w] = NoTask]
    /\ wpc' = [wpc EXCEPT ![w] = "publish"]
    /\ hist' = [hist EXCEPT !.fetched = @ + 1, !.lateFetch = @ \/ shutdown]
    /\ UNCHANGED <<store, usageCache, now, sendq, resultQueue, shutdown, queuesClosed,
                   stopPc, activeWorkers, processedTasks, pc, agg, bp, env, calc, keyData, imp, sessions>>

\* worker: result := wp.processTask(task); the fetch runs to its end
WorkerFetch(w) ==
    /\ wpc[w] = "fetch"
    /\ \E outcome \in env.outcomes :
          wresult' = [wresult EXCEPT ![w] = processTask(wtask[w], outcome, now)]
    /\ wtask' = [wtask EXCEPT ![w] = NoTask]
    /\ wpc' = [wpc EXCEPT ![w] = "publish"]
    /\ hist' = [hist EXCEPT !.fetched = @ + 1, !.lateFetch = @ \/ shutdown]
    /\ UNCHANGED <<store, usageCache, now, taskQueue, sendq, resultQueue, shutdown, queuesClosed,
                   stopPc, activeWorkers, processedTasks, pc, agg, bp, env, calc, keyData, imp, sessions>>

\* worker: case wp.resultQueue <- result: atomic.AddInt64(&wp.processedTasks, 1),
\* the send and the increment in one step (for the requests, which never read the
\* counter and never stop the pool, the two steps and the wait are not told apart)
WorkerPublish(w) ==
    /\ wpc[w] = "publish"
    /\ ~queuesClosed
    /\ Len(resultQueue) < queueSize
    /\ resultQueue' = Append(resultQueue, wresult[w])
    /\ processedTasks' = processedTasks + 1
    /\ wresult' = [wresult EXCEPT ![w] = NoResult]
    /\ wpc' = [wpc EXCEPT ![w] = "select"]
    /\ hist' = [hist EXCEPT !.published = @ + 1]
    /\ UNCHANGED <<store, usageCache, now, taskQueue, sendq, shutdown, queuesClosed,
                   stopPc, wtask, activeWorkers, pc, agg, bp, env, calc, keyData, imp, sessions>>

\* worker: case wp.resultQueue <- result, the send alone, on a queue with room
WorkerSend(w) ==
    /\ wpc[w] = "publish"
    /\ ~queuesClosed
    /\ Len(resultQueue) < queueSize
    /\ resultQueue' = Append(resultQueue, wresult[w])
    /\ wresult' = [wresult EXCEPT ![w] = NoResult]
    /\ wpc' = [wpc EXCEPT ![w] = "count"]
    /\ hist' = [hist EXCEPT !.published = @ + 1]
    /\ UNCHANGED <<store, usageCache, now, taskQueue, sendq, shutdown, queuesClosed,
                   stopPc, wtask, activeWorkers, processedTasks, pc, agg, bp, env, calc, keyData, imp, sessions>>

\* worker: the select finds the result queue full and no shutdown signal: the goroutine
\* blocks, waiting for a receiver or for the signal
WorkerPark(w) ==
    /\ wpc[w] = "publish"
    /\ ~shutdown
    /\ Len(resultQueue) = queueSize
    /\ wpc' = [wpc EXCEPT ![w] = "blocked"]
    /\ UNCHANGED <<store, usageCache, now, taskQueue, sendq, resultQueue, shutdown, queuesClosed,
                   stopPc, wtask, wresult, activeWorkers, processedTasks, pc, agg, bp, env, calc, keyData, imp, sessions, hist>>

\* a bug: the counter is incremented twice for one result
WorkerCount_Twice(w) ==
    /\ wpc[w] = "count"
    /\ processedTasks' = processedTasks + 2
    /\ wpc' = [wpc EXCEPT ![w] = "select"]
    /\ UNCHANGED <<store, usageCache, now, taskQueue, sendq, resultQueue, shutdown, queuesClosed,
                   stopPc, wtask, wresult, activeWorkers, pc, agg, bp, env, calc, keyData, imp, sessions, hist>>

\* worker: atomic.AddInt64(&wp.processedTasks, 1), after the send has gone through
WorkerCount(w) ==
    /\ wpc[w] = "count"
    /\ processedTasks' = processedTasks + 1
    /\ wpc' = [wpc EXCEPT ![w] = "select"]
    /\ UNCHANGED <<store, usageCache, now, taskQueue, sendq, resultQueue, shutdown, queuesClosed,
                   stopPc, wtask, wresult, activeWorkers, pc, agg, bp, env, calc, keyData, imp, sessions, hist>>

\* a bug: the select that publishes the result has no shutdown case
WorkerShutdown_IdleOnly(w) ==
    /\ wpc[w] = "select"
    /\ shutdown
    /\ wpc' = [wpc EXCEPT ![w] = "exited"]
    /\ activeWorkers' = activeWorkers - 1
    /\ UNCHANGED <<store, usageCache, now, taskQueue, sendq, resultQueue, shutdown, queuesClosed,
                   stopPc, wtask, wresult, processedTasks, pc, agg, bp, env, calc, keyData, imp, sessions, hist>>

\* a bug: the worker observes the signal during the fetch and abandons it
WorkerShutdown_MidFetch(w) ==
    /\ wpc[w] \in {"select", "fetch", "publish", "blocked"}
    /\ shutdown
    /\ wpc' = [wpc EXCEPT ![w] = "exited"]
    /\ wresult' = [wresult EXCEPT ![w] = NoResult]
    /\ activeWorkers' = activeWorkers - 1
    /\ hist' = [hist EXCEPT !.dropped = @ \/ wpc[w] \in {"publish", "blocked"},
                            !.lost = IF wpc[w] \in {"publish", "blocked"} THEN @ + 1 ELSE @,
                            !.lostBlocked = @ \/ wpc[w] = "blocked"]
    /\ UNCHANGED <<store, usageCache, now, taskQueue, sendq, resultQueue, shutdown, queuesClosed,
                   stopPc, wtask, processedTasks, pc, agg, bp, env, calc, keyData, imp, sessions>>

\* worker: case <-wp.shutdown: return, in either select
\* (deferred: activeWorkers - 1, wg.Done)
WorkerShutdown(w) ==
    /\ wpc[w] \in {"select", "publish", "blocked"}
    /\ shutdown
    /\ wpc' = [wpc EXCEPT ![w] = "exited"]
    /\ wresult' = [wresult EXCEPT ![w] = NoResult]
    /\ activeWorkers' = activeWorkers - 1
    /\ hist' = [hist EXCEPT !.dropped = @ \/ wpc[w] \in {"publish", "blocked"},
                            !.lost = IF wpc[w] \in {"publish", "blocked"} THEN @ + 1 ELSE @,
                            !.lostBlocked = @ \/ wpc[w] = "blocked"]
    /\ UNCHANGED <<store, usageCache, now, taskQueue, sendq, resultQueue, shutdown, queuesClosed,
                   stopPc, wtask, processedTasks, pc, agg, bp, env, calc, keyData, imp, sessions>>

\* Stop: close(wp.shutdown)
StopSignal ==
    /\ stopPc = "idle"
    /\ shutdown' = TRUE
    /\ stopPc' = "wait"
    /\ UNCHANGED <<store, usageCache, now, taskQueue, sendq, resultQueue, queuesClosed,
                   wpc, wtask, wresult, activeWorkers, processedTasks, pc, agg, bp, env, calc, keyData, imp, sessions, hist>>

\* a bug: Stop closes the queues without waiting for the workers
StopClose_NoWait ==
    /\ stopPc = "wait"
    /\ queuesClosed' = TRUE
    /\ stopPc' = "done"
    /\ sendq' = <<>>
    /\ hist' = [hist EXCEPT !.panicked = @ \/ sendq # <<>>]
    /\ UNCHANGED <<store, usageCache, now, taskQueue, resultQueue, shutdown,
                   wpc, wtask, wresult, activeWorkers, processedTasks, pc, agg, bp, env, calc, keyData, imp, sessions>>

\* Stop: wp.wg.Wait() returns; close(wp.taskQueue); close(wp.resultQueue);
\* the close wakes the senders blocked on taskQueue, which panic
StopClose ==
    /\ stopPc = "wait"
    /\ \A w \in Workers : wpc[w] = "exited"
    /\ queuesClosed' = TRUE
    /\ stopPc' = "done"
    /\ sendq' = <<>>
    /\ hist' = [hist EXCEPT !.panicked = @ \/ sendq # <<>>]
    /\ UNCHANGED <<store, usageCache, now, taskQueue, resultQueue, shutdown,
                   wpc, wtask, wresult, activeWorkers, processedTasks, pc, agg, bp, env, calc, keyData, imp, sessions>>

\* a bug: a second Stop finds the pool stopped and returns without doing anything
StopAgain_NoOp ==
    /\ stopPc # "idle"
    /\ ~hist.stopAgain
    /\ hist' = [hist EXCEPT !.stopAgain = TRUE]
    /\ UNCHANGED <<store, usageCache, now, taskQueue, sendq, resultQueue, shutdown, queuesClosed,
                   stopPc, wpc, wtask, wresult, activeWorkers, processedTasks, pc, agg, bp,
                   env, calc, keyData, imp, sessions>>

\* a further Stop: close(wp.shutdown) on the closed channel panics
StopAgain ==
    /\ stopPc # "idle"
    /\ ~hist.stopAgain
    /\ hist' = [hist EXCEPT !.stopAgain = TRUE, !.stopPanicked = shutdown]
    /\ UNCHANGED <<store, usageCache, now, taskQueue, sendq, resultQueue, shutdown, queuesClosed,
                   stopPc, wpc, wtask, wresult, activeWorkers, processedTasks, pc, agg, bp,
                   env, calc, keyData, imp, sessions>>

\* SubmitTask(task), the call: select { case wp.taskQueue <- task: return nil; ... }.
\* With room in the buffer the send completes at once; on a full buffer the caller
\* blocks, as the youngest sender; a send on the closed queue panics
SubmitTask(id) ==
    /\ hist.submits < MaxSubmits
    /\ ~hist.panicked
    /\ IF queuesClosed
       THEN /\ hist' = [hist EXCEPT !.panicked = TRUE]
            /\ UNCHANGED <<taskQueue, sendq>>
       ELSE IF Len(taskQueue) < queueSize
       THEN /\ taskQueue' = Append(taskQueue, id)
            /\ hist' = [hist EXCEPT !.submits = @ + 1, !.accepted = @ + 1]
            /\ UNCHANGED sendq
       ELSE /\ sendq' = Append(sendq, id)
            /\ hist' = [hist EXCEPT !.submits = @ + 1]
            /\ UNCHANGED taskQueue
    /\ UNCHANGED <<store, usageCache, now, resultQueue, shutdown, queuesClosed, stopPc,
                   wpc, wtask, wresult, activeWorkers, processedTasks, pc, agg, bp, env, calc, keyData, imp, sessions>>

\* SubmitTask: case <-time.After(5 * time.Second): return "task queue is full".
\* The callers block in the order of their calls, so the oldest one times out first
SubmitTimeout ==
    /\ sendq # <<>>
    /\ sendq' = Tail(sendq)
    /\ hist' = [hist EXCEPT !.rejected = @ + 1]
    /\ UNCHANGED <<store, usageCache, now, taskQueue, resultQueue, shutdown, queuesClosed,
                   stopPc, wpc, wtask, wresult, activeWorkers, processedTasks, pc, agg, bp,
                   env, calc, keyData, imp, sessions>>

\* a bug: a worker woken by the shutdown signal still has its send served
BlockedSenders_AfterSignal == {w \in Workers : wpc[w] = "blocked"}

\* the workers blocked in their send on the result queue that a receive can serve: once
\* the shutdown signal is raised it has woken them, and they are no longer senders
BlockedSenders == IF shutdown THEN {} ELSE {w \in Workers : wpc[w] = "blocked"}

\* a bug: the receive frees a slot of the buffer and leaves the blocked workers waiting
GetResult_NoHandOver ==
    /\ resultQueue # <<>>
    /\ resultQueue' = Tail(resultQueue)
    /\ UNCHANGED <<store, usageCache, now, taskQueue, sendq, shutdown, queuesClosed, stopPc,
                   wpc, wtask, wresult, activeWorkers, processedTasks, pc, agg, bp, env, calc,
                   keyData, imp, sessions, hist>>

\* GetResult(): a result of the result queue (or none after 100 ms, which changes nothing);
\* the receive from a full buffer completes the send of a blocked worker
GetResult ==
    /\ resultQueue # <<>>
    /\ IF BlockedSenders = {}
       THEN /\ resultQueue' = Tail(resultQueue)
            /\ UNCHANGED <<wpc, wresult, hist>>
       ELSE \E w \in BlockedSenders :
               /\ resultQueue' = Append(Tail(resultQueue), wresult[w])
               /\ wresult' = [wresult EXCEPT ![w] = NoResult]
               /\ wpc' = [wpc EXCEPT ![w] = "count"]
               /\ hist' = [hist EXCEPT !.published = @ + 1]
    /\ UNCHANGED <<store, usageCache, now, taskQueue, sendq, shutdown, queuesClosed, stopPc,
                   wtask, activeWorkers, processedTasks, pc, agg, bp, env, calc, keyData, imp, sessions>>

(* ------------------------------ storage ------------------------------- *)
RECURSIVE SortedSeq(_)
\* the identifiers of a set as a list, in ascending order
SortedSeq(S) ==
    IF S = {} THEN <<>>
    ELSE LET m == CHOOSE x \in S : \A y \in S : x <= y
         IN  <<m>> \o SortedSeq(S \ {m})

\* Storage.GetAllAPIKeys: the keys of "keys:list"
GetAllAPIKeys == SortedSeq(store)

\* Storage.GetUsage(id): the record, or nil when there is none (redis.Nil)
GetUsage(id) == usageCache[id]

\* Storage.BatchSaveUsage(usages, ttl): one pipelined SET per record, under usage.ID
BatchSaveUsage(cache, usages) ==
    [id \in KeyIds |->
        IF \E j \in 1..Len(usages) : usages[j].ID = id
        THEN usages[CHOOSE j \in 1..Len(usages) :
                        /\ usages[j].ID = id
                        /\ \A l \in 1..Len(usages) : usages[l].ID = id => l <= j]
        ELSE cache[id]]

\* a bug: the delete drops the usage records of all keys
DeleteAPIKey_AllUsage(id) ==
    /\ store' = store \ {id}
    /\ keyData' = [k \in DOMAIN keyData \ {id} |-> keyData[k]]
    /\ usageCache' = [k \in KeyIds |-> NoUsage]

\* Storage.DeleteAPIKey(id): DEL key:<id>, DEL key:<id>:usage, SREM keys:list <id>
DeleteAPIKey(id) ==
    /\ store' = store \ {id}
    /\ keyData' = [k \in DOMAIN keyData \ {id} |-> keyData[k]]
    /\ usageCache' = [usageCache EXCEPT ![id] = NoUsage]

(* ----------------------------- aggregator ----------------------------- *)
\* a bug: a record whose age equals the window still counts as fresh
IsFresh_Inclusive(usage, t) == t - usage.LastUpdated <= cacheTTL

\* time.Since(usage.LastUpdated) < s.cacheTTL
IsFresh(usage, t) == t - usage.LastUpdated < cacheTTL

\* the cache read of one key: usage, err := s.store.GetUsage(key.ID);
\* err == nil && usage != nil && still fresh
CacheHit(id, readOk, t) ==
    /\ readOk
    /\ GetUsage(id) # NoUsage
    /\ IsFresh(GetUsage(id), t)

\* storageUsage := &storage.Usage{...}: the copy written back (no Error field is copied)
ToStorageUsage(u) ==
    Usage(u.ID, u.TotalAllowance, u.OrgTotalUsed, u.LastUpdated, "")

\* a bug: every fresh result is written back, failed or not
ValidResults_All(fresh) == [j \in 1..Len(fresh) |-> ToStorageUsage(fresh[j])]

RECURSIVE ValidResults(_)
\* validResults: the fresh results with usage.Error == "", converted
ValidResults(fresh) ==
    IF fresh = <<>> THEN <<>>
    ELSE (IF Head(fresh).Error = "" THEN <<ToStorageUsage(Head(fresh))>> ELSE <<>>)
         \o ValidResults(Tail(fresh))

\* allResults := append(cachedResults, freshResults...)
CombineResults(cached, fresh) == cached \o fresh

RECURSIVE TotalAllowanceOf_FreshOnly(_)
\* a bug: only the records fetched in this round (LastUpdated = now) are summed
TotalAllowanceOf_FreshOnly(all) ==
    IF all = <<>> THEN 0
    ELSE (IF Head(all).Error = "" /\ Head(all).LastUpdated = now
          THEN Head(all).TotalAllowance ELSE 0)
         + TotalAllowanceOf_FreshOnly(Tail(all))

RECURSIVE TotalAllowanceOf(_)
\* totals.TotalAllowance: summed over the records with usage.Error == ""
TotalAllowanceOf(all) ==
    IF all = <<>> THEN 0
    ELSE (IF Head(all).Error = "" THEN Head(all).TotalAllowance ELSE 0)
         + TotalAllowanceOf(Tail(all))

RECURSIVE TotalUsedOf(_)
\* totals.TotalOrgTotalTokensUsed: summed over the records with usage.Error == ""
TotalUsedOf(all) ==
    IF all = <<>> THEN 0
    ELSE (IF Head(all).Error = "" THEN Head(all).OrgTotalUsed ELSE 0)
         + TotalUsedOf(Tail(all))

\* &models.AggregatedData{TotalCount: len(keys), Totals: totals, Data: allResults}
AggregatedData(keys, all) ==
    [TotalCount |-> Len(keys),
     Totals |-> [TotalAllowance |-> TotalAllowanceOf(all),
                 TotalOrgTotalTokensUsed |-> TotalUsedOf(all)],
     Data |-> all]

NoReport == [TotalCount |-> 0 - 1, Totals |-> [TotalAllowance |-> 0, TotalOrgTotalTokensUsed |-> 0],
             Data |-> <<>>]

InitAgg ==
    [keys |-> <<>>, i |-> 0, cachedResults |-> <<>>, uncachedKeys |-> <<>>,
     freshResults |-> <<>>, report |-> NoReport]

InitBp ==
    [i |-> 0, submitted |-> 0, received |-> 0, resultChan |-> <<>>,
     resultMap |-> <<>>, held |-> NoResult, ctxDone |-> FALSE, err |-> ""]

\* a bug: a failure of the store is taken for an empty key list
ListKeys_FailureAsEmpty(c) ==
    /\ pc[c] = "start"
    /\ \E ok \in env.lists :
          LET keys == IF ok THEN GetAllAPIKeys ELSE <<>>
          IN  /\ IF Len(keys) = 0
                 THEN /\ agg' = [agg EXCEPT ![c].report = AggregatedData(keys, <<>>)]
                      /\ pc' = [pc EXCEPT ![c] = "done"]
                 ELSE /\ agg' = [agg EXCEPT ![c].keys = keys, ![c].i = 1]
                      /\ pc' = [pc EXCEPT ![c] = "partition"]
              /\ hist' = IF ok THEN hist ELSE [hist EXCEPT !.listFailed = @ \cup {c}]
    /\ UNCHANGED <<store, usageCache, now, bp>>
    /\ UNCHANGED <<poolVars, env, calc, keyData, imp, sessions>>

\* GetAggregatedData: keys, err := s.store.GetAllAPIKeys(); "failed to get API keys" when
\* the store fails; the empty report for no keys
ListKeys(c) ==
    /\ pc[c] = "start"
    /\ \E ok \in env.lists :
          LET keys == GetAllAPIKeys
          IN  IF ~ok
              THEN /\ pc' = [pc EXCEPT ![c] = "list_failed"]
                   /\ hist' = [hist EXCEPT !.listFailed = @ \cup {c}]
                   /\ UNCHANGED agg
              ELSE IF Len(keys) = 0
              THEN /\ agg' = [agg EXCEPT ![c].report = AggregatedData(keys, <<>>)]
                   /\ pc' = [pc EXCEPT ![c] = "done"]
                   /\ UNCHANGED hist
              ELSE /\ agg' = [agg EXCEPT ![c].keys = keys, ![c].i = 1]
                   /\ pc' = [pc EXCEPT ![c] = "partition"]
                   /\ UNCHANGED hist
    /\ UNCHANGED <<store, usageCache, now, bp>>
    /\ UNCHANGED <<poolVars, env, calc, keyData, imp, sessions>>

\* the usage cache holds a record of the key that is younger than the freshness window
HoldsFresh(id) ==
    /\ usageCache[id].ID = id
    /\ now < usageCache[id].LastUpdated + cacheTTL

\* GetAggregatedData: one turn of the loop "for _, key := range keys" (check cache first)
Partition(c) ==
    /\ pc[c] = "partition"
    /\ LET id == agg[c].keys[agg[c].i]
           last == agg[c].i = Len(agg[c].keys)
       IN  \E readOk \in env.reads :
             LET hit == CacheHit(id, readOk, now)
                 cached == IF hit THEN Append(agg[c].cachedResults, GetUsage(id))
                           ELSE agg[c].cachedResults
                 uncached == IF hit THEN agg[c].uncachedKeys
                             ELSE Append(agg[c].uncachedKeys, id)
             IN  /\ agg' = [agg EXCEPT ![c].cachedResults = cached,
                                       ![c].uncachedKeys = uncached,
                                       ![c].i = @ + 1]
                 /\ pc' = [pc EXCEPT ![c] = IF ~last THEN "partition"
                                            ELSE IF Len(uncached) > 0 THEN "submit"
                                            ELSE "save"]
                 /\ bp' = [bp EXCEPT ![c].i = 1]
                 /\ hist' = [hist EXCEPT
                        !.heldFresh[c] = IF HoldsFresh(id) THEN @ \cup {id} ELSE @,
                        !.readFailed[c] = IF HoldsFresh(id) /\ ~readOk THEN @ \cup {id}
                                          ELSE @]
    /\ UNCHANGED <<store, usageCache, now>>
    /\ UNCHANGED <<poolVars, env, calc, keyData, imp, sessions>>

\* the position after the task of key bp.i has been dealt with
AfterSubmit(c) == IF bp[c].i = Len(agg[c].uncachedKeys) THEN "collect" ELSE "submit"

\* BatchProcess: select { case wp.taskQueue <- task: submitted++; default: sleep 10ms }
Submit(c) ==
    /\ pc[c] = "submit"
    /\ LET id == agg[c].uncachedKeys[bp[c].i]
       IN  IF queuesClosed
           THEN /\ pc' = [pc EXCEPT ![c] = "panic"]
                /\ UNCHANGED <<taskQueue, bp, hist>>
           ELSE IF Len(taskQueue) < queueSize
           THEN /\ taskQueue' = Append(taskQueue, id)
                /\ bp' = [bp EXCEPT ![c].submitted = @ + 1, ![c].i = @ + 1]
                /\ pc' = [pc EXCEPT ![c] = AfterSubmit(c)]
                /\ hist' = [hist EXCEPT !.enqueued[c] = @ \cup {id}]
           ELSE /\ pc' = [pc EXCEPT ![c] = "retry"]
                /\ UNCHANGED <<taskQueue, bp, hist>>
    /\ UNCHANGED <<store, usageCache, now, sendq, resultQueue, shutdown, queuesClosed,
                   stopPc, wpc, wtask, wresult, activeWorkers, processedTasks, agg, env, calc, keyData, imp, sessions>>

\* a bug: after the placeholder the task is left with the queue all the same
Retry_AlsoEnqueues(c) ==
    /\ pc[c] = "retry"
    /\ ~queuesClosed
    /\ Len(bp[c].resultChan) < Len(agg[c].uncachedKeys)
    /\ LET id == agg[c].uncachedKeys[bp[c].i]
       IN  /\ taskQueue' = Append(taskQueue, id)
           /\ bp' = [bp EXCEPT
                   ![c].resultChan = IF Len(taskQueue) < queueSize THEN @
                                     ELSE Append(@, Result(id, NoUsage, "task queue full")),
                   ![c].submitted = IF Len(taskQueue) < queueSize THEN @ + 1 ELSE @,
                   ![c].i = @ + 1]
           /\ pc' = [pc EXCEPT ![c] = AfterSubmit(c)]
           /\ hist' = IF Len(taskQueue) < queueSize
                      THEN [hist EXCEPT !.enqueued[c] = @ \cup {id}]
                      ELSE [hist EXCEPT !.queueFull[c] = @ \cup {id},
                                        !.lastKind[c][id] = "failed"]
    /\ UNCHANGED <<store, usageCache, now, sendq, resultQueue, shutdown, queuesClosed,
                   stopPc, wpc, wtask, wresult, activeWorkers, processedTasks, agg, env, calc, keyData, imp, sessions>>

\* a bug: the second attempt waits for room in the task queue
Retry_WaitsForRoom(c) ==
    /\ pc[c] = "retry"
    /\ ~queuesClosed
    /\ Len(taskQueue) < queueSize
    /\ LET id == agg[c].uncachedKeys[bp[c].i]
       IN  /\ taskQueue' = Append(taskQueue, id)
           /\ bp' = [bp EXCEPT ![c].submitted = @ + 1, ![c].i = @ + 1]
           /\ pc' = [pc EXCEPT ![c] = AfterSubmit(c)]
           /\ hist' = [hist EXCEPT !.enqueued[c] = @ \cup {id}]
    /\ UNCHANGED <<store, usageCache, now, sendq, resultQueue, shutdown, queuesClosed,
                   stopPc, wpc, wtask, wresult, activeWorkers, processedTasks, agg, env, calc, keyData, imp, sessions>>

\* BatchProcess: the second attempt; default: resultChan <- Result{ID, "task queue full"}
Retry(c) ==
    /\ pc[c] = "retry"
    /\ LET id == agg[c].uncachedKeys[bp[c].i]
       IN  IF queuesClosed
           THEN /\ pc' = [pc EXCEPT ![c] = "panic"]
                /\ UNCHANGED <<taskQueue, bp, hist>>
           ELSE IF Len(taskQueue) < queueSize
           THEN /\ taskQueue' = Append(taskQueue, id)
                /\ bp' = [bp EXCEPT ![c].submitted = @ + 1, ![c].i = @ + 1]
                /\ pc' = [pc EXCEPT ![c] = AfterSubmit(c)]
                /\ hist' = [hist EXCEPT !.enqueued[c] = @ \cup {id}]
           ELSE /\ Len(bp[c].resultChan) < Len(agg[c].uncachedKeys)
                /\ bp' = [bp EXCEPT
                        ![c].resultChan = Append(@, Result(id, NoUsage, "task queue full")),
                        ![c].i = @ + 1]
                /\ pc' = [pc EXCEPT ![c] = AfterSubmit(c)]
                /\ hist' = [hist EXCEPT !.queueFull[c] = @ \cup {id},
                                        !.lastKind[c][id] = "failed"]
                /\ UNCHANGED taskQueue
    /\ UNCHANGED <<store, usageCache, now, sendq, resultQueue, shutdown, queuesClosed,
                   stopPc, wpc, wtask, wresult, activeWorkers, processedTasks, agg, env, calc, keyData, imp, sessions>>

\* a result that reports a failed fetch: a Go error, or a usage carrying an error string
IsFailure(result) == result.Error # "" \/ result.Usage.Error # ""

\* the position after one more result has been counted
AfterReceive(c) ==
    IF bp[c].received + 1 < Len(agg[c].uncachedKeys) THEN "collect" ELSE "close"

\* collectLoop: case result := <-wp.resultQueue: resultChan <- result; received++
\* (the send waits while resultChan is full)
\* (a closed, drained resultQueue gives the zero Result at once)
CollectRecv(c) ==
    /\ pc[c] = "collect"
    /\ resultQueue # <<>> \/ queuesClosed
    /\ LET result == IF resultQueue # <<>> THEN Head(resultQueue) ELSE NoResult
       IN  /\ resultQueue' = IF resultQueue # <<>> THEN Tail(resultQueue) ELSE resultQueue
           /\ IF Len(bp[c].resultChan) < Len(agg[c].uncachedKeys)
              THEN /\ bp' = [bp EXCEPT ![c].resultChan = Append(@, result),
                                       ![c].received = @ + 1]
                   /\ pc' = [pc EXCEPT ![c] = AfterReceive(c)]
              ELSE /\ bp' = [bp EXCEPT ![c].held = result]
                   /\ pc' = [pc EXCEPT ![c] = "forward"]
           /\ hist' = [hist EXCEPT
                    !.lastKind[c] = IF result.ID \in KeyIds
                                    THEN [@ EXCEPT ![result.ID] =
                                            IF IsFailure(result) THEN "failed" ELSE "ok"]
                                    ELSE @]
    /\ UNCHANGED <<store, usageCache, now, taskQueue, sendq, shutdown, queuesClosed, stopPc,
                   wpc, wtask, wresult, activeWorkers, processedTasks, agg, env, calc, keyData, imp, sessions>>

\* collectLoop: the pending send resultChan <- result goes through; received++
Forward(c) ==
    /\ pc[c] = "forward"
    /\ Len(bp[c].resultChan) < Len(agg[c].uncachedKeys)
    /\ bp' = [bp EXCEPT ![c].resultChan = Append(@, bp[c].held),
                        ![c].held = NoResult,
                        ![c].received = @ + 1]
    /\ pc' = [pc EXCEPT ![c] = AfterReceive(c)]
    /\ UNCHANGED <<store, usageCache, now, agg, hist>>
    /\ UNCHANGED <<poolVars, env, calc, keyData, imp, sessions>>

\* a bug: the error of a failed fetch is dropped from the record
CollectedUsage_NoError(result) ==
    IF result.Error # "" THEN ErrorUsage(result.ID, "") ELSE result.Usage

\* the collector's conversion of one result into the map's value
CollectedUsage(result) ==
    IF result.Error # "" THEN ErrorUsage(result.ID, result.Error) ELSE result.Usage

RECURSIVE RecordAll(_, _)
\* the result map after the collector has recorded the results of chan, in their order
RecordAll(m, chan) ==
    IF chan = <<>> THEN m
    ELSE LET result == Head(chan)
         IN  RecordAll([id \in DOMAIN m \cup {result.ID} |->
                           IF id = result.ID THEN CollectedUsage(result) ELSE m[id]],
                       Tail(chan))

\* a bug: the deadline is noted and the loop goes on
DeadlineFire_KeepsCollecting(c) ==
    /\ pc[c] = "collect"
    /\ ~bp[c].ctxDone
    /\ bp' = [bp EXCEPT ![c].ctxDone = TRUE]
    /\ hist' = [hist EXCEPT !.atDeadline[c] = RecordAll(bp[c].resultMap, bp[c].resultChan)]
    /\ UNCHANGED <<store, usageCache, now, pc, agg>>
    /\ UNCHANGED <<poolVars, env, calc, keyData, imp, sessions>>

\* collectLoop: case <-ctx.Done(): break collectLoop
DeadlineFire(c) ==
    /\ pc[c] = "collect"
    /\ bp' = [bp EXCEPT ![c].ctxDone = TRUE]
    /\ pc' = [pc EXCEPT ![c] = "close"]
    /\ hist' = [hist EXCEPT !.atDeadline[c] = RecordAll(bp[c].resultMap, bp[c].resultChan)]
    /\ UNCHANGED <<store, usageCache, now, agg>>
    /\ UNCHANGED <<poolVars, env, calc, keyData, imp, sessions>>

\* the collector goroutine: for result := range resultChan { resultMap[result.ID] = ... }
Collector(c) ==
    /\ bp[c].resultChan # <<>>
    /\ LET result == Head(bp[c].resultChan)
           m == bp[c].resultMap
       IN  bp' = [bp EXCEPT
                ![c].resultChan = Tail(@),
                ![c].resultMap = [id \in DOMAIN m \cup {result.ID} |->
                                    IF id = result.ID THEN CollectedUsage(result) ELSE m[id]]]
    /\ UNCHANGED <<store, usageCache, now, pc, agg, hist>>
    /\ UNCHANGED <<poolVars, env, calc, keyData, imp, sessions>>

RECURSIVE OrderedResults_DropMissing(_, _)
\* a bug: a key without a mapped result is skipped instead of getting a placeholder
OrderedResults_DropMissing(keys, m) ==
    IF keys = <<>> THEN <<>>
    ELSE (IF Head(keys) \in DOMAIN m THEN <<m[Head(keys)]>> ELSE <<>>)
         \o OrderedResults_DropMissing(Tail(keys), m)

RECURSIVE OrderedResults_MapOrder(_, _)
\* a bug: the results are listed as a walk over the map finds them, not in key order
OrderedResults_MapOrder(keys, m) ==
    IF keys = <<>> THEN <<>>
    ELSE OrderedResults_MapOrder(Tail(keys), m)
         \o <<IF Head(keys) \in DOMAIN m THEN m[Head(keys)]
               ELSE ErrorUsage(Head(keys), "Processing timeout")>>

\* a bug: the output lists every record of the map, whatever its key
OrderedResults_WholeMap(keys, m) ==
    LET ids == SortedSeq(DOMAIN m)
    IN  [i \in 1..Len(ids) |-> m[ids[i]]]

RECURSIVE OrderedResults(_, _)
\* the ordered pass: the mapped result of each key, else the "Processing timeout" record
OrderedResults(keys, m) ==
    IF keys = <<>> THEN <<>>
    ELSE <<IF Head(keys) \in DOMAIN m THEN m[Head(keys)]
           ELSE ErrorUsage(Head(keys), "Processing timeout")>>
         \o OrderedResults(Tail(keys), m)

\* a bug: a batch with a failed key returns an error
BatchError_AnyFailure(results) ==
    IF \E j \in 1..Len(results) : results[j].Error # "" THEN "batch failed" ELSE ""

\* the error BatchProcess returns with its results: always nil
BatchError(results) == ""

\* a bug: the ordered pass does not wait for the collector to finish
BuildResults_NoWait(c) ==
    /\ pc[c] = "close"
    /\ LET results == OrderedResults(agg[c].uncachedKeys, bp[c].resultMap)
       IN  /\ agg' = [agg EXCEPT ![c].freshResults = results]
           /\ bp' = [bp EXCEPT ![c].err = BatchError(results), ![c].resultChan = <<>>]
    /\ pc' = [pc EXCEPT ![c] = "save"]
    /\ UNCHANGED <<store, usageCache, now, hist>>
    /\ UNCHANGED <<poolVars, env, calc, keyData, imp, sessions>>

\* BatchProcess: close(resultChan); wg.Wait(); the ordered pass; return results, nil
BuildResults(c) ==
    /\ pc[c] = "close"
    /\ bp[c].resultChan = <<>>
    /\ LET results == OrderedResults(agg[c].uncachedKeys, bp[c].resultMap)
       IN  /\ agg' = [agg EXCEPT ![c].freshResults = results]
           /\ bp' = [bp EXCEPT ![c].err = BatchError(results)]
    /\ pc' = [pc EXCEPT ![c] = "save"]
    /\ UNCHANGED <<store, usageCache, now, hist>>
    /\ UNCHANGED <<poolVars, env, calc, keyData, imp, sessions>>

\* the records of usages at the positions S, in their order
Selected(usages, S) ==
    LET at == SortedSeq(S)
    IN  [l \in 1..Len(at) |-> usages[at[l]]]

\* the pipeline of a failed BatchSaveUsage has stored some of the records, not all
PartWritten(usages) ==
    {Selected(usages, S) : S \in (SUBSET (1..Len(usages))) \ {1..Len(usages)}}

\* a bug: a failed write-back makes the request fail
SaveAndReport_SaveErrorFails(c) ==
    /\ pc[c] = "save"
    /\ LET valid == ValidResults(agg[c].freshResults)
           all == CombineResults(agg[c].cachedResults, agg[c].freshResults)
       IN  IF bp[c].err # ""
           THEN /\ pc' = [pc EXCEPT ![c] = "batch_failed"]
                /\ UNCHANGED <<usageCache, agg, hist>>
           ELSE \E saved \in (IF Len(valid) > 0 THEN env.saves ELSE {"ok"}) :
                /\ IF saved = "ok"
                   THEN usageCache' = IF Len(valid) > 0 THEN BatchSaveUsage(usageCache, valid)
                                      ELSE usageCache
                   ELSE \E part \in PartWritten(valid) :
                           usageCache' = BatchSaveUsage(usageCache, part)
                /\ hist' = IF Len(valid) > 0
                           THEN [hist EXCEPT !.saved[c] = Append(@, valid),
                                             !.saveFailed[c] = saved # "ok"]
                           ELSE hist
                /\ IF saved = "ok"
                   THEN /\ agg' = [agg EXCEPT ![c].report = AggregatedData(agg[c].keys, all)]
                        /\ pc' = [pc EXCEPT ![c] = "done"]
                   ELSE /\ pc' = [pc EXCEPT ![c] = "batch_failed"]
                        /\ UNCHANGED agg
    /\ UNCHANGED <<store, now, bp>>
    /\ UNCHANGED <<poolVars, env, calc, keyData, imp, sessions>>

\* GetAggregatedData: "failed to process keys" if BatchProcess returned an error; else
\* the write-back of the valid fresh results, whose error is ignored
\* (_ = s.store.BatchSaveUsage(...)), then the report
SaveAndReport(c) ==
    /\ pc[c] = "save"
    /\ LET valid == ValidResults(agg[c].freshResults)
           all == CombineResults(agg[c].cachedResults, agg[c].freshResults)
       IN  IF bp[c].err # ""
           THEN /\ pc' = [pc EXCEPT ![c] = "batch_failed"]
                /\ UNCHANGED <<usageCache, agg, hist>>
           ELSE \E saved \in (IF Len(valid) > 0 THEN env.saves ELSE {"ok"}) :
                /\ IF saved = "ok"
                   THEN usageCache' = IF Len(valid) > 0 THEN BatchSaveUsage(usageCache, valid)
                                      ELSE usageCache
                   ELSE \E part \in PartWritten(valid) :
                           usageCache' = BatchSaveUsage(usageCache, part)
                /\ hist' = IF Len(valid) > 0
                           THEN [hist EXCEPT !.saved[c] = Append(@, valid),
                                             !.saveFailed[c] = saved # "ok"]
                           ELSE hist
                /\ agg' = [agg EXCEPT ![c].report = AggregatedData(agg[c].keys, all)]
                /\ pc' = [pc EXCEPT ![c] = "done"]
    /\ UNCHANGED <<store, now, bp>>
    /\ UNCHANGED <<poolVars, env, calc, keyData, imp, sessions>>

\* APIKeyService.DeleteKey(id): s.localCache.Delete(id); s.store.DeleteAPIKey(id)
DeleteKey(id) ==
    /\ id \in store
    /\ DeleteAPIKey(id)
    /\ hist' = [hist EXCEPT !.deleted = @ \cup {id}]
    /\ UNCHANGED <<now, pc, agg, bp>>
    /\ UNCHANGED <<poolVars, env, calc, imp, sessions>>

\* an identifier that no key has
UnknownId == MaxKeys + 1

\* the lists of identifiers that a BatchDeleteKeys request can carry
RECURSIVE IdLists(_)
IdLists(n) ==
    IF n = 0 THEN {<<>>}
    ELSE LET shorter == IdLists(n - 1)
         IN  shorter \cup {Append(l, id) : l \in {x \in shorter : Len(x) = n - 1},
                                           id \in KeyIds \cup {UnknownId}}

\* Storage.BatchDeleteAPIKeys: (success, failed), given whether pipe.Exec returned an
\* error and which identifiers' first command carries an error
BatchDeleteAPIKeys(ids, execErr, cmdErrs) ==
    IF execErr
    THEN [Success |-> 0, Failed |-> Len(ids)]
    ELSE [Success |-> Cardinality({i \in 1..Len(ids) : i \notin cmdErrs}),
          Failed |-> Cardinality({i \in 1..Len(ids) : i \in cmdErrs})]

\* the identifiers whose command of the given kind (1: DEL key:<id>, 2: DEL key:<id>:usage,
\* 3: SREM keys:list <id>) has taken effect, when the first sent commands of the pipeline
\* were executed and the first command of the identifiers at cmdErrs failed
Applied(ids, kind, sent, cmdErrs) ==
    {ids[i] : i \in {j \in 1..Len(ids) :
                        /\ 3 * (j - 1) + kind <= sent
                        /\ ~(kind = 1 /\ j \in cmdErrs)}}

\* APIKeyService.BatchDeleteKeys(ids): one pipeline of three commands for every id, executed
\* in order; when pipe.Exec fails on the connection only the first commands have run
BatchDeleteKeys(ids) ==
    /\ calc.op = "none"
    /\ \E execErr \in BOOLEAN : \E cmdErrs \in SUBSET (1..Len(ids)) :
       \E sent \in (IF execErr THEN 0..(3 * Len(ids)) ELSE {3 * Len(ids)}) :
          /\ calc' = [op |-> "BatchDeleteKeys", ids |-> ids,
                      out |-> BatchDeleteAPIKeys(ids, execErr, cmdErrs)]
          /\ store' = store \ Applied(ids, 3, sent, cmdErrs)
          /\ keyData' = [k \in DOMAIN keyData \ Applied(ids, 1, sent, cmdErrs) |-> keyData[k]]
          /\ usageCache' = [k \in KeyIds |->
                               IF k \in Applied(ids, 2, sent, cmdErrs)
                               THEN NoUsage ELSE usageCache[k]]
    /\ UNCHANGED <<now, pc, agg, bp, hist>>
    /\ UNCHANGED <<poolVars, env, imp, sessions>>

\* time passes
Tick ==
    /\ now < MaxTime
    /\ now' = now + 1
    /\ UNCHANGED <<store, usageCache, pc, agg, bp, hist>>
    /\ UNCHANGED <<poolVars, env, calc, keyData, imp, sessions>>

(* ------------------- BatchProcess with a fixed timeout ------------------ *)
\* The BatchProcess of src/unnamed/part_001: all tasks are submitted through SubmitTask,
\* then the results are counted off wp.resultQueue under one time.After(30 s).

\* the position after the task of key bp.i has been dealt with
AfterFixedSubmit(c) ==
    IF bp[c].i = Len(agg[c].uncachedKeys) THEN "fixedCollect" ELSE "fixedSubmit"

\* SubmitTask: case wp.taskQueue <- task: return nil
FixedSubmit(c) ==
    /\ pc[c] = "fixedSubmit"
    /\ Len(taskQueue) < queueSize
    /\ LET id == agg[c].uncachedKeys[bp[c].i]
       IN  /\ taskQueue' = Append(taskQueue, id)
           /\ hist' = [hist EXCEPT !.enqueued[c] = @ \cup {id}]
    /\ bp' = [bp EXCEPT ![c].submitted = @ + 1, ![c].i = @ + 1]
    /\ pc' = [pc EXCEPT ![c] = AfterFixedSubmit(c)]
    /\ UNCHANGED <<store, usageCache, now, sendq, resultQueue, shutdown, queuesClosed,
                   stopPc, wpc, wtask, wresult, activeWorkers, processedTasks, agg, env, calc,
                   keyData, imp, sessions>>

\* SubmitTask: case <-time.After(5 * time.Second): the queue has stayed full, which takes
\* that no worker was waiting for a task; BatchProcess goes on with the next key
FixedSubmitFails(c) ==
    /\ pc[c] = "fixedSubmit"
    /\ Len(taskQueue) = queueSize
    /\ \A w \in Workers : wpc[w] # "select"
    /\ bp' = [bp EXCEPT ![c].i = @ + 1]
    /\ pc' = [pc EXCEPT ![c] = AfterFixedSubmit(c)]
    /\ hist' = [hist EXCEPT !.queueFull[c] = @ \cup {agg[c].uncachedKeys[bp[c].i]}]
    /\ UNCHANGED <<store, usageCache, now, agg>>
    /\ UNCHANGED <<poolVars, env, calc, keyData, imp, sessions>>

\* for received < len(keys): case result, ok := <-wp.resultQueue: the result is put in
\* the map and received++
FixedReceive(c) ==
    /\ pc[c] = "fixedCollect"
    /\ bp[c].received < Len(agg[c].uncachedKeys)
    /\ resultQueue # <<>>
    /\ LET result == Head(resultQueue)
           m == bp[c].resultMap
       IN  bp' = [bp EXCEPT
                ![c].received = @ + 1,
                ![c].resultMap = [id \in DOMAIN m \cup {result.ID} |->
                                    IF id = result.ID THEN CollectedUsage(result) ELSE m[id]]]
    /\ resultQueue' = Tail(resultQueue)
    /\ UNCHANGED <<store, usageCache, now, taskQueue, sendq, shutdown, queuesClosed, stopPc,
                   wpc, wtask, wresult, activeWorkers, processedTasks, pc, agg, env, calc,
                   keyData, imp, sessions, hist>>

\* for received < len(keys): case <-timeout: break; the break leaves the select, the
\* for statement tests its condition again, and the timer has delivered its one value
FixedTimeout(c) ==
    /\ pc[c] = "fixedCollect"
    /\ bp[c].received < Len(agg[c].uncachedKeys)
    /\ ~bp[c].ctxDone
    /\ bp' = [bp EXCEPT ![c].ctxDone = TRUE]
    /\ UNCHANGED <<store, usageCache, now, pc, agg, hist>>
    /\ UNCHANGED <<poolVars, env, calc, keyData, imp, sessions>>

\* received < len(keys) is false: the ordered pass with its "Processing timeout"
\* placeholders, and return results, nil
FixedReturn(c) ==
    /\ pc[c] = "fixedCollect"
    /\ bp[c].received >= Len(agg[c].uncachedKeys)
    /\ agg' = [agg EXCEPT ![c].freshResults =
                              OrderedResults(agg[c].uncachedKeys, bp[c].resultMap)]
    /\ pc' = [pc EXCEPT ![c] = "fixedDone"]
    /\ UNCHANGED <<store, usageCache, now, bp, hist>>
    /\ UNCHANGED <<poolVars, env, calc, keyData, imp, sessions>>

(* ---------------------------- authentication -------------------------- *)
\* CreateSession: ExpiresAt = time.Now().Add(7 * 24 * time.Hour), in ticks of the clock
sessionTTL == 1

SessionIds == 1..MaxSessions
NoSessions == [id \in SessionIds |-> NoSession]

\* c.Cookies("session") of a request without that cookie: the empty string
NoCookie == 0
Cookies == {NoCookie} \cup SessionIds

\* Request paths are Go strings: sequences of bytes, here of one-byte characters.
PathApi == <<"/", "a", "p", "i">>
PathHealth == <<"/", "h", "e", "a", "l", "t", "h">>
PathLogin == <<"/", "a", "p", "i", "/", "l", "o", "g", "i", "n">>
PathData == <<"/", "a", "p", "i", "/", "d", "a", "t", "a">>
PathKeys == <<"/", "a", "p", "i", "/", "k", "e", "y", "s">>
Paths == {PathApi, PathHealth, PathLogin, PathData, PathKeys}

\* the routes registered on the api group
ProtectedRoutes == {PathData, PathKeys}

\* app.Group("/api", ...): the middleware runs for the paths under the prefix
Grouped(path) == Len(path) >= 4 /\ SubSeq(path, 1, 4) = PathApi

\* a JWT: signed with jwtSecret or not, with its "exp" claim
Tokens == [signed : BOOLEAN, exp : 0..(MaxTime + 1)]

\* c.Get("Authorization"): empty, "Bearer <token>", or anything else
Headers == {[kind |-> "none"], [kind |-> "other"]}
               \cup {[kind |-> "bearer", token |-> t] : t \in Tokens}

Requests == [path : Paths, cookie : Cookies, header : Headers]

\* the passwords that a login request can carry
Passwords == {"", "secret", "wrong"}

\* AuthService.IsAuthRequired
IsAuthRequired == env.adminPassword # ""

\* AuthService.ValidatePassword
ValidatePassword(password) ==
    IF env.adminPassword = "" THEN TRUE ELSE password = env.adminPassword

\* a bug: a stored session is accepted whatever its expiry time
ValidateSession_IgnoresExpiry(sessionID, readOk) ==
    IF env.adminPassword = "" THEN TRUE
    ELSE IF sessionID = NoCookie THEN FALSE
    ELSE IF ~readOk \/ sessions[sessionID] = NoSession THEN FALSE
    ELSE TRUE

\* AuthService.ValidateSession: its result, when GetSession succeeds or fails
ValidateSession(sessionID, readOk) ==
    IF env.adminPassword = "" THEN TRUE
    ELSE IF sessionID = NoCookie THEN FALSE
    ELSE IF ~readOk \/ sessions[sessionID] = NoSession THEN FALSE
    ELSE IF now > sessions[sessionID] THEN FALSE
    ELSE TRUE

\* AuthService.ValidateSession: the session store it leaves; it deletes a session that it
\* read and found expired
ValidatedSessions(sessionID, readOk) ==
    IF /\ env.adminPassword # ""
       /\ sessionID # NoCookie
       /\ readOk
       /\ sessions[sessionID] # NoSession
       /\ now > sessions[sessionID]
    THEN [sessions EXCEPT ![sessionID] = NoSession]
    ELSE sessions

\* AuthService.ValidateJWT: jwt.Parse with jwtSecret accepts a token that carries a
\* signature of the secret and whose "exp" is still ahead
ValidateJWT(token) ==
    IF env.adminPassword = "" THEN TRUE
    ELSE token.signed /\ now < token.exp

\* AuthMiddleware: what the middleware does with a request
AuthMiddleware(req, readOk) ==
    IF req.path = PathHealth \/ req.path = PathLogin THEN "next"
    ELSE IF ~IsAuthRequired THEN "next"
    ELSE IF req.cookie # NoCookie /\ ValidateSession(req.cookie, readOk) THEN "next"
    ELSE IF req.header.kind = "bearer" /\ ValidateJWT(req.header.token) THEN "next"
    ELSE IF Len(req.path) > 4 /\ SubSeq(req.path, 1, 4) = PathApi THEN "401"
    ELSE "redirect"

\* AuthMiddleware calls ValidateSession for this request
SessionChecked(req) ==
    /\ req.path # PathHealth
    /\ req.path # PathLogin
    /\ IsAuthRequired
    /\ req.cookie # NoCookie

\* one request is served: outside the api group without the middleware, inside it by
\* the middleware and then, when it calls c.Next(), by the handler of the route if any
Request(req) ==
    /\ calc.op = "none"
    /\ \E readOk \in env.reads :
          LET outcome == IF Grouped(req.path) THEN AuthMiddleware(req, readOk) ELSE "next"
          IN  /\ calc' = [op |-> "request", req |-> req,
                          status |-> IF outcome = "next" THEN 200
                                     ELSE IF outcome = "401" THEN 401 ELSE 302,
                          handler |-> outcome = "next" /\ req.path \in ProtectedRoutes,
                          read |-> /\ Grouped(req.path)
                                   /\ SessionChecked(req)
                                   /\ readOk]
              /\ sessions' = IF Grouped(req.path) /\ SessionChecked(req)
                             THEN ValidatedSessions(req.cookie, readOk)
                             ELSE sessions
    /\ UNCHANGED <<store, keyData, usageCache, now, pc, agg, bp, hist>>
    /\ UNCHANGED <<poolVars, env, imp>>

\* the response of the request has been sent
Respond ==
    /\ calc.op = "request"
    /\ calc' = NoCalc
    /\ UNCHANGED <<store, keyData, usageCache, now, pc, agg, bp, hist>>
    /\ UNCHANGED <<poolVars, env, imp, sessions>>

\* Handlers.Login: ValidatePassword, then CreateSession stores a session under a new
\* identifier and the cookie carries it
Login(password) ==
    /\ IF ValidatePassword(password)
       THEN \E id \in SessionIds :
               /\ sessions[id] = NoSession
               /\ sessions' = [sessions EXCEPT ![id] = now + sessionTTL]
       ELSE UNCHANGED sessions
    /\ UNCHANGED <<store, keyData, usageCache, now, pc, agg, bp, hist>>
    /\ UNCHANGED <<poolVars, env, calc, imp>>

\* Handlers.Logout: DeleteSession of the session named by the cookie
Logout(cookie) ==
    /\ cookie # NoCookie
    /\ sessions[cookie] # NoSession
    /\ sessions' = [sessions EXCEPT ![cookie] = NoSession]
    /\ UNCHANGED <<store, keyData, usageCache, now, pc, agg, bp, hist>>
    /\ UNCHANGED <<poolVars, env, calc, imp>>

\* the store drops a session whose time to live (the one of SaveSession) has run out
ExpireSession(id) ==
    /\ sessions[id] # NoSession
    /\ now >= sessions[id]
    /\ sessions' = [sessions EXCEPT ![id] = NoSession]
    /\ UNCHANGED <<store, keyData, usageCache, now, pc, agg, bp, hist>>
    /\ UNCHANGED <<poolVars, env, calc, imp>>

(* ------------------------------ ImportKeys ----------------------------- *)
\* Credentials are Go strings: sequences of bytes, here of one-byte characters.
WhiteSpace == {" ", "\t"}

RECURSIVE TrimLeft(_)
TrimLeft(str) ==
    IF str # <<>> /\ Head(str) \in WhiteSpace THEN TrimLeft(Tail(str)) ELSE str

RECURSIVE TrimRight(_)
TrimRight(str) ==
    IF str # <<>> /\ str[Len(str)] \in WhiteSpace
    THEN TrimRight(SubSeq(str, 1, Len(str) - 1))
    ELSE str

\* a bug: the entry is taken as it is
TrimSpace_None(str) == str

\* strings.TrimSpace: all leading and trailing white space removed
TrimSpace(str) == TrimRight(TrimLeft(str))

\* a bug: a credential saved by this call is not remembered for the rest of the batch
Remember_Nothing(existingMap, keyStr) == existingMap

\* existingMap[keyStr] = true
Remember(existingMap, keyStr) == existingMap \cup {keyStr}

\* the credentials of the keys that Storage.GetAllAPIKeys returns: the members of
\* "keys:list" whose "key:<id>" hash exists
StoredCredentials == {keyData[id] : id \in store \cap DOMAIN keyData}

\* id := fmt.Sprintf("key-%s-%d", uuid..., time.Now().Unix()): an identifier not in use
\* (identifiers are interchangeable, the least unused one stands for any of them)
NewId == CHOOSE id \in 1..(Cardinality(store \cup DOMAIN keyData) + 1) :
             id \notin store \cup DOMAIN keyData

\* Storage.SaveAPIKey: HSET key:<id> data <key>; SADD keys:list <id>
SaveAPIKey(id, keyStr) ==
    /\ keyData' = [k \in DOMAIN keyData \cup {id} |-> IF k = id THEN keyStr ELSE keyData[k]]
    /\ store' = store \cup {id}
ImportResult(s, f, d) == [Success |-> s, Failed |-> f, Duplicates |-> d]

\* no ImportKeys call
NoImport == [pc |-> "idle", keys |-> <<>>, i |-> 0, existingMap |-> {},
             result |-> ImportResult(0, 0, 0)]

\* ImportKeys: existingKeys, err := s.store.GetAllAPIKeys() and the map of their credentials
ImportStart(c) ==
    /\ imp[c].pc = "start"
    /\ \E ok \in env.lists :
          IF ok
          THEN /\ imp' = [imp EXCEPT ![c].pc = "loop", ![c].i = 1,
                                     ![c].existingMap = StoredCredentials]
               /\ hist' = [hist EXCEPT !.importBase[c] = StoredCredentials]
          ELSE /\ imp' = [imp EXCEPT ![c].pc = "failed"]
               /\ UNCHANGED hist
    /\ UNCHANGED <<store, keyData, usageCache, now, pc, agg, bp>>
    /\ UNCHANGED <<poolVars, env, calc, sessions>>

\* ImportKeys: one round of the loop over the entries
ImportEntry(c) ==
    /\ imp[c].pc = "loop"
    /\ imp[c].i <= Len(imp[c].keys)
    /\ LET keyStr == TrimSpace(imp[c].keys[imp[c].i])
           r == imp[c].result
       IN  IF keyStr = <<>>
           THEN /\ imp' = [imp EXCEPT ![c].i = @ + 1]
                /\ UNCHANGED <<store, keyData>>
           ELSE IF keyStr \in imp[c].existingMap
           THEN /\ imp' = [imp EXCEPT ![c].i = @ + 1, ![c].result.Duplicates = @ + 1]
                /\ UNCHANGED <<store, keyData>>
           ELSE \E saved \in env.saves :
                  IF saved = "ok"
                  THEN /\ SaveAPIKey(NewId, keyStr)
                       /\ imp' = [imp EXCEPT ![c].i = @ + 1, ![c].result.Success = @ + 1,
                                             ![c].existingMap = Remember(@, keyStr)]
                  ELSE /\ imp' = [imp EXCEPT ![c].i = @ + 1, ![c].result.Failed = @ + 1]
                       /\ UNCHANGED <<store, keyData>>
    /\ UNCHANGED <<usageCache, now, pc, agg, bp, hist>>
    /\ UNCHANGED <<poolVars, env, calc, sessions>>

\* ImportKeys: return result, nil
ImportReturn(c) ==
    /\ imp[c].pc = "loop"
    /\ imp[c].i > Len(imp[c].keys)
    /\ imp' = [imp EXCEPT ![c].pc = "done"]
    /\ UNCHANGED <<store, keyData, usageCache, now, pc, agg, bp, hist>>
    /\ UNCHANGED <<poolVars, env, calc, sessions>>

(* ------------------------------ GetAllKeys ----------------------------- *)
\* a bug: a credential of eight bytes is masked too
maskKey_FromEight(key) ==
    IF Len(key) < 8 THEN key
    ELSE SubSeq(key, 1, 4) \o <<".", ".", ".">> \o SubSeq(key, Len(key) - 3, Len(key))

\* APIKeyService.maskKey: len(key) <= 8 ? key : key[:4] + "..." + key[len(key)-4:]
maskKey(key) ==
    IF Len(key) <= 8 THEN key
    ELSE SubSeq(key, 1, 4) \o <<".", ".", ".">> \o SubSeq(key, Len(key) - 3, Len(key))

\* APIKeyService.GetAllKeys: one APIKeyMasked per key that the store returns
GetAllKeys ==
    /\ calc.op = "none"
    /\ LET keys == SortedSeq(store \cap DOMAIN keyData)
       IN  calc' = [op |-> "GetAllKeys",
                    out |-> [i \in 1..Len(keys) |->
                                [ID |-> keys[i], Masked |-> maskKey(keyData[keys[i]])]]]
    /\ UNCHANGED <<store, keyData, usageCache, now, pc, agg, bp, imp, sessions, hist>>
    /\ UNCHANGED <<poolVars, env>>

(* ------------------------------ GetStats ------------------------------ *)
\* WorkerPool.GetStats: the map of the pool's counters and queue lengths
GetStats ==
    /\ calc.op = "none"
    /\ calc' = [op |-> "GetStats",
                out |-> [active_workers |-> activeWorkers,
                         queue_size |-> Len(taskQueue),
                         result_queue_size |-> Len(resultQueue),
                         processed_tasks |-> processedTasks,
                         max_workers |-> maxWorkers,
                         queue_capacity |-> queueSize]]
    /\ UNCHANGED <<store, keyData, usageCache, now, pc, agg, bp, imp, sessions, hist>>
    /\ UNCHANGED <<poolVars, env>>

(* -------------------- the credential echoed by a fetch ---------------- *)
\* the helper functions min and max of the pool's file
min(a, b) == IF a < b THEN a ELSE b
max(a, b) == IF a > b THEN a ELSE b

\* fetchUsageFromAPI: maskedKey := fmt.Sprintf("%s...%s",
\*     apiKey[:min(4, len(apiKey))], apiKey[max(0, len(apiKey)-4):])
maskedKey(apiKey) ==
    SubSeq(apiKey, 1, min(4, Len(apiKey)))
       \o <<".", ".", ".">>
       \o SubSeq(apiKey, max(0, Len(apiKey) - 4) + 1, Len(apiKey))

\* fetchUsageFromAPI on a 200 response with a readable body: the ID and Key of the
\* record it returns for a stored key
FetchedRecord ==
    /\ calc.op = "none"
    /\ \E id \in store \cap DOMAIN keyData :
          calc' = [op |-> "fetchUsageFromAPI",
                   out |-> [ID |-> id, Key |-> maskedKey(keyData[id])]]
    /\ UNCHANGED <<store, keyData, usageCache, now, pc, agg, bp, imp, sessions, hist>>
    /\ UNCHANGED <<poolVars, env>>

(* ------------------------- the batch deadline ------------------------- *)
\* a bug: the upper limit of five minutes is not applied
timeoutDuration_NoCap(M, N) == baseTimeout + (M \div N) * perKeyTimeout

\* BatchProcess: timeoutDuration, in seconds, for len(keys) = M and wp.maxWorkers = N
\* (len(keys) / wp.maxWorkers is Go's integer division)
timeoutDuration(M, N) ==
    LET t == baseTimeout + (M \div N) * perKeyTimeout
    IN  IF t > maxTimeout THEN maxTimeout ELSE t


\* a BatchProcess call of M keys on a pool of N workers computes its deadline
ComputeDeadline ==
    /\ \E M \in 1..MaxBatch, N \in 1..MaxPool :
          calc' = [op |-> "timeoutDuration", M |-> M, N |-> N, out |-> timeoutDuration(M, N)]
    /\ UNCHANGED <<store, usageCache, now, pc, agg, bp, hist>>
    /\ UNCHANGED <<poolVars, env, keyData, imp, sessions>>

(* --------------------------- specifications --------------------------- *)
\* deleted: the keys whose DeleteKey has completed
\* heldFresh, readFailed: per call, the keys of which the usage cache held a record younger
\*   than the freshness window when the call read it, and those among them whose read failed
\* enqueued, queueFull: per call, the keys put on the task queue / given up as queue full
\* lastKind: per call, the kind of the last result forwarded to the collector for a key
\* saved: per call, the arguments of its BatchSaveUsage calls, in order
\* dropped: a worker left at shutdown with an unpublished result
\* submits, panicked: the SubmitTask calls made, and whether one hit a closed queue
\* accepted, rejected: the SubmitTask calls that returned nil / "task queue is full"
\* stopAgain, stopPanicked: a further Stop call was made, and it panicked
InitHist ==
    [importBase |-> [c \in Calls |-> {}],
     listFailed |-> {},
     lostBlocked |-> FALSE,
     lateFetch |-> FALSE,
     saveFailed |-> [c \in Calls |-> FALSE],
     lost |-> 0,
     taken |-> 0,
     fetched |-> 0,
     published |-> 0,
     atDeadline |-> [c \in Calls |-> <<>>],
     deleted |-> {},
     heldFresh |-> [c \in Calls |-> {}],
     readFailed |-> [c \in Calls |-> {}],
     enqueued |-> [c \in Calls |-> {}],
     queueFull |-> [c \in Calls |-> {}],
     lastKind |-> [c \in Calls |-> [id \in KeyIds |-> "none"]],
     saved |-> [c \in Calls |-> <<>>],
     dropped |-> FALSE,
     stopAgain |-> FALSE,
     stopPanicked |-> FALSE,
     submits |-> 0,
     accepted |-> 0,
     rejected |-> 0,
     panicked |-> FALSE]

\* the pool after NewWorkerPool and Start; the workers are at position at
InitPool(at) ==
    /\ taskQueue = <<>>
    /\ sendq = <<>>
    /\ resultQueue = <<>>
    /\ shutdown = FALSE
    /\ queuesClosed = FALSE
    /\ stopPc = "idle"
    /\ wpc = [w \in Workers |-> at]
    /\ wtask = [w \in Workers |-> NoTask]
    /\ wresult = [w \in Workers |-> NoResult]
    /\ activeWorkers = IF at = "spawned" THEN 0 ELSE maxWorkers
    /\ processedTasks = 0

\* the credential of the key that the store holds under identifier id at the start:
\* eight bytes for key 1, one more for each further key
InitialCredential(id) == [j \in 1..(7 + id) |-> IF j <= id THEN "a" ELSE "b"]

\* the key store at the start: "keys:list" and one "key:<id>" hash per identifier
InitKeys(ids) ==
    /\ store = ids
    /\ keyData = [id \in ids |-> InitialCredential(id)]

\* a usage cache left by an earlier round at instant 0: per key no record, or its record
CacheStates == [KeyIds -> BOOLEAN]

InitCache(f) ==
    [id \in KeyIds |->
        IF f[id] THEN Usage(id, RemoteAllowance(id), RemoteUsed(id), 0, "") ELSE NoUsage]

\* the calls that are made: the others never start
InitCalls(active) ==
    /\ pc = [c \in Calls |-> IF c \in active THEN "start" ELSE "idle"]
    /\ calc = NoCalc
    /\ imp = [c \in Calls |-> NoImport]
    /\ agg = [c \in Calls |-> InitAgg]
    /\ bp = [c \in Calls |-> InitBp]
    /\ hist = InitHist
    /\ sessions = NoSessions

\* One GetAggregatedData request on a running pool; the endpoint and the cache reads
\* may fail in every way, the cache holds any records of an earlier round, time passes.
Init ==
    /\ InitPool("select")
    /\ InitKeys(KeyIds)
    /\ \E f \in CacheStates : usageCache = InitCache(f)
    /\ now = 0
    /\ env = [outcomes |-> Outcomes, reads |-> BOOLEAN,
             lists |-> {TRUE}, saves |-> {"ok"}]
    /\ InitCalls({1})

WorkerNext ==
    \/ \E w \in Workers : WorkerTake(w)
    \/ \E w \in Workers : WorkerFetch(w)
    \/ \E w \in Workers : WorkerPublish(w)

CallNext ==
    \/ \E c \in Calls : ListKeys(c)
    \/ \E c \in Calls : Partition(c)
    \/ \E c \in Calls : Submit(c)
    \/ \E c \in Calls : Retry(c)
    \/ \E c \in Calls : CollectRecv(c)
    \/ \E c \in Calls : DeadlineFire(c)
    \/ \E c \in Calls : Collector(c)
    \/ \E c \in Calls : BuildResults(c)
    \/ \E c \in Calls : SaveAndReport(c)

Next ==
    \/ WorkerNext
    \/ CallNext
    \/ Tick

Spec == Init /\ [][Next]_vars

\* All the requests at once on a running pool, with a healthy endpoint and store and an
\* empty cache.
InitConc ==
    /\ InitPool("select")
    /\ InitKeys(KeyIds)
    /\ usageCache = InitCache([id \in KeyIds |-> FALSE])
    /\ now = 0
    /\ env = [outcomes |-> {"ok"}, reads |-> {TRUE},
             lists |-> {TRUE}, saves |-> {"ok"}]
    /\ InitCalls(Calls)

NextConc ==
    \/ WorkerNext
    \/ CallNext
    \/ \E c \in Calls : Forward(c)

SpecConc == InitConc /\ [][NextConc]_vars

\* Two requests at once on a running pool, as above; the workers may stall at any point,
\* while every step of a BatchProcess call that can be taken is eventually taken: its
\* submission loop, its collector goroutine, its pending send to the collector, and its
\* deadline, which fires while the call waits in the collection loop.
InitTerm ==
    /\ InitPool("select")
    /\ InitKeys(KeyIds)
    /\ usageCache = InitCache([id \in KeyIds |-> FALSE])
    /\ now = 0
    /\ env = [outcomes |-> {"ok"}, reads |-> {TRUE},
             lists |-> {TRUE}, saves |-> {"ok"}]
    /\ InitCalls({1, 2})

FairTerm ==
    \A c \in Calls :
        /\ WF_vars(Submit(c))
        /\ WF_vars(Retry(c))
        /\ WF_vars(Forward(c))
        /\ WF_vars(Collector(c))
        /\ WF_vars(DeadlineFire(c))
        /\ WF_vars(BuildResults(c))

SpecTerm == InitTerm /\ [][NextConc]_vars /\ FairTerm

\* One request and key deletions.
NextDelete ==
    \/ WorkerNext
    \/ CallNext
    \/ \E id \in KeyIds : DeleteKey(id)

SpecDelete == Init /\ [][NextDelete]_vars

\* Deletions alone: any keys are stored, the cache holds any records, keys are deleted
\* one at a time and one BatchDeleteKeys request of any identifiers is served.
InitRemove ==
    /\ InitPool("select")
    /\ \E ids \in SUBSET KeyIds : InitKeys(ids)
    /\ \E f \in CacheStates : usageCache = InitCache(f)
    /\ now = 0
    /\ env = [outcomes |-> {"ok"}, reads |-> {TRUE}, lists |-> {TRUE}, saves |-> {"ok"}]
    /\ InitCalls({})

NextRemove ==
    \/ \E id \in KeyIds : DeleteKey(id)
    \/ \E ids \in IdLists(MaxDelete) : BatchDeleteKeys(ids)

SpecRemove == InitRemove /\ [][NextRemove]_vars

\* Two calls of the BatchProcess with the fixed timeout, each for all keys, on a running
\* pool; every goroutine that can take a step eventually takes it, every fetch returns,
\* and each timer fires while its call is still waiting for results.
InitFixed ==
    /\ InitPool("select")
    /\ InitKeys(KeyIds)
    /\ usageCache = InitCache([id \in KeyIds |-> FALSE])
    /\ now = 0
    /\ env = [outcomes |-> {"ok", "transport"}, reads |-> {TRUE},
              lists |-> {TRUE}, saves |-> {"ok"}]
    /\ pc = [c \in Calls |-> "fixedSubmit"]
    /\ calc = NoCalc
    /\ imp = [c \in Calls |-> NoImport]
    /\ agg = [c \in Calls |-> [InitAgg EXCEPT !.uncachedKeys = GetAllAPIKeys]]
    /\ bp = [c \in Calls |-> [InitBp EXCEPT !.i = 1]]
    /\ hist = InitHist
    /\ sessions = NoSessions

NextFixed ==
    \/ WorkerNext
    \/ \E c \in Calls : FixedSubmit(c)
    \/ \E c \in Calls : FixedSubmitFails(c)
    \/ \E c \in Calls : FixedReceive(c)
    \/ \E c \in Calls : FixedTimeout(c)
    \/ \E c \in Calls : FixedReturn(c)

FairFixed ==
    /\ \A w \in Workers : WF_vars(WorkerTake(w))
    /\ \A w \in Workers : WF_vars(WorkerFetch(w))
    /\ \A w \in Workers : WF_vars(WorkerPublish(w))
    /\ \A c \in Calls : WF_vars(FixedSubmit(c))
    /\ \A c \in Calls : WF_vars(FixedSubmitFails(c))
    /\ \A c \in Calls : WF_vars(FixedReceive(c))
    /\ \A c \in Calls : WF_vars(FixedTimeout(c))
    /\ \A c \in Calls : WF_vars(FixedReturn(c))

SpecFixed == InitFixed /\ [][NextFixed]_vars /\ FairFixed

\* The web front: an admin password is configured or not, the session store holds any
\* sessions of earlier logins, reads of it may fail; requests of every path, cookie and
\* Authorization header are served, users log in and out, time passes.
InitAuth ==
    /\ InitPool("select")
    /\ InitKeys(KeyIds)
    /\ usageCache = InitCache([id \in KeyIds |-> FALSE])
    /\ now = 0
    /\ \E password \in {"", "secret"} :
          env = [outcomes |-> {"ok"}, reads |-> BOOLEAN, lists |-> {TRUE}, saves |-> {"ok"},
                 adminPassword |-> password]
    /\ pc = [c \in Calls |-> "idle"]
    /\ calc = NoCalc
    /\ imp = [c \in Calls |-> NoImport]
    /\ agg = [c \in Calls |-> InitAgg]
    /\ bp = [c \in Calls |-> InitBp]
    /\ hist = InitHist
    /\ sessions \in [SessionIds -> {NoSession} \cup 0..MaxTime]

NextAuth ==
    \/ \E req \in Requests : Request(req)
    \/ Respond
    \/ \E password \in Passwords : Login(password)
    \/ \E cookie \in Cookies : Logout(cookie)
    \/ \E id \in SessionIds : ExpireSession(id)
    \/ Tick

SpecAuth == InitAuth /\ [][NextAuth]_vars

\* The life of the pool from Start to Stop, with clients that submit tasks and take
\* results directly; every goroutine that can take a step eventually takes it, and every
\* started fetch returns.
InitStop ==
    /\ InitPool("spawned")
    /\ InitKeys(KeyIds)
    /\ usageCache = InitCache([id \in KeyIds |-> FALSE])
    /\ now = 0
    /\ env = [outcomes |-> Outcomes, reads |-> BOOLEAN,
             lists |-> {TRUE}, saves |-> {"ok"}]
    /\ InitCalls({})

NextStop ==
    \/ \E w \in Workers : WorkerBegin(w)
    \/ WorkerNext
    \/ \E w \in Workers : WorkerShutdown(w)
    \/ StopSignal
    \/ StopClose
    \/ \E id \in KeyIds : SubmitTask(id)
    \/ SubmitTimeout
    \/ GetResult

FairStop ==
    /\ \A w \in Workers : WF_vars(WorkerBegin(w))
    /\ \A w \in Workers : WF_vars(WorkerFetch(w))
    /\ \A w \in Workers : WF_vars(WorkerShutdown(w))
    /\ WF_vars(StopClose)
    /\ WF_vars(SubmitTimeout)

SpecStop == InitStop /\ [][NextStop]_vars /\ FairStop

\* The pool by itself, from Start to Stop, with clients that submit tasks and take
\* results; the worker's send, its wait on a full result queue and its increment of the
\* counter are steps of their own.
NextPool ==
    \/ \E w \in Workers : WorkerBegin(w)
    \/ \E w \in Workers : WorkerTake(w)
    \/ \E w \in Workers : WorkerFetch(w)
    \/ \E w \in Workers : WorkerSend(w)
    \/ \E w \in Workers : WorkerPark(w)
    \/ \E w \in Workers : WorkerCount(w)
    \/ \E w \in Workers : WorkerShutdown(w)
    \/ StopSignal
    \/ StopClose
    \/ \E id \in KeyIds : SubmitTask(id)
    \/ SubmitTimeout
    \/ GetResult

SpecPool == InitStop /\ [][NextPool]_vars

\* The pool from Start to Stop as above, with a client that reads the statistics once,
\* at any moment.
NextStats ==
    \/ NextPool
    \/ GetStats

\* the endpoint answers or cannot be reached
InitStats ==
    /\ InitPool("spawned")
    /\ InitKeys(KeyIds)
    /\ usageCache = InitCache([id \in KeyIds |-> FALSE])
    /\ now = 0
    /\ env = [outcomes |-> {"ok", "transport"}, reads |-> BOOLEAN,
             lists |-> {TRUE}, saves |-> {"ok"}]
    /\ InitCalls({})

SpecStats == InitStats /\ [][NextStats]_vars

\* The pool that is started and never stopped, with clients that submit tasks and a
\* client that keeps taking results; every goroutine that can take a step eventually
\* takes it and every started fetch returns.
NextLive ==
    \/ \E w \in Workers : WorkerBegin(w)
    \/ \E w \in Workers : WorkerTake(w)
    \/ \E w \in Workers : WorkerFetch(w)
    \/ \E w \in Workers : WorkerSend(w)
    \/ \E w \in Workers : WorkerPark(w)
    \/ \E w \in Workers : WorkerCount(w)
    \/ \E id \in KeyIds : SubmitTask(id)
    \/ SubmitTimeout
    \/ GetResult

FairLive ==
    /\ \A w \in Workers : WF_vars(WorkerBegin(w))
    /\ \A w \in Workers : WF_vars(WorkerTake(w))
    /\ \A w \in Workers : WF_vars(WorkerFetch(w))
    /\ \A w \in Workers : WF_vars(WorkerSend(w) \/ WorkerPark(w))
    /\ \A w \in Workers : WF_vars(WorkerCount(w))
    /\ WF_vars(GetResult)

SpecLive == InitStats /\ [][NextLive]_vars /\ FairLive

\* A pool that is stopped while it is in use: one request that may run before, during
\* or after the Stop, a further Stop, and direct submissions made once Stop has
\* completed (those made before are part of SpecStop). A panic ends the operation that
\* raised it; the other operations are followed on, to see how each of them ends.
InitMisuse ==
    /\ InitPool("select")
    /\ InitKeys(KeyIds)
    /\ usageCache = InitCache([id \in KeyIds |-> FALSE])
    /\ now = 0
    /\ env = [outcomes |-> {"ok"}, reads |-> {TRUE},
             lists |-> {TRUE}, saves |-> {"ok"}]
    /\ InitCalls({1})

NextMisuse ==
    \/ WorkerNext
    \/ \E w \in Workers : WorkerShutdown(w)
    \/ StopSignal
    \/ StopClose
    \/ StopAgain
    \/ \E id \in KeyIds : queuesClosed /\ SubmitTask(id)
    \/ CallNext

SpecMisuse == InitMisuse /\ [][NextMisuse]_vars

\* The deadline computation of BatchProcess, for every batch size and pool size.
InitDeadline ==
    /\ InitPool("select")
    /\ InitKeys(KeyIds)
    /\ usageCache = InitCache([id \in KeyIds |-> FALSE])
    /\ now = 0
    /\ env = [outcomes |-> {"ok"}, reads |-> {TRUE},
             lists |-> {TRUE}, saves |-> {"ok"}]
    /\ InitCalls({})

NextDeadline == ComputeDeadline

SpecDeadline == InitDeadline /\ [][NextDeadline]_vars

\* the entries that a request may carry: blank ones, credentials with and without
\* white space around them, and one with white space inside
Entries ==
    { <<>>, <<" ">>, <<"A">>, <<" ", "A">>, <<"A", " ">>, <<"B">>, <<"\t", "B", " ">>,
      <<"A", " ", "B">> }

RECURSIVE Lists(_)
Lists(n) ==
    IF n = 0 THEN {<<>>}
    ELSE LET shorter == Lists(n - 1)
         IN  shorter \cup {Append(l, e) : l \in {x \in shorter : Len(x) = n - 1}, e \in Entries}

\* the credential of a key imported earlier
EarlierCredential(id) ==
    IF id = 1 THEN <<"A">> ELSE IF id = 2 THEN <<"B">> ELSE [j \in 1..id |-> "C"]

\* One ImportKeys request with any list of entries, on a store that holds any of the keys
\* imported earlier; the store may fail when it lists the keys, and in some runs when it
\* saves one.
InitImport ==
    /\ InitPool("select")
    /\ \E ids \in SUBSET KeyIds :
          /\ store = ids
          /\ keyData = [id \in ids |-> EarlierCredential(id)]
    /\ usageCache = InitCache([id \in KeyIds |-> FALSE])
    /\ now = 0
    /\ \E saves \in {{"ok"}, {"ok", "failed"}} :
          env = [outcomes |-> {"ok"}, reads |-> {TRUE}, lists |-> BOOLEAN, saves |-> saves]
    /\ pc = [c \in Calls |-> "idle"]
    /\ calc = NoCalc
    /\ agg = [c \in Calls |-> InitAgg]
    /\ bp = [c \in Calls |-> InitBp]
    /\ hist = InitHist
    /\ sessions = NoSessions
    /\ \E keys \in Lists(MaxInput) :
          imp = [c \in Calls |-> IF c = 1 THEN [NoImport EXCEPT !.pc = "start", !.keys = keys]
                                          ELSE NoImport]

NextImport ==
    \/ \E c \in Calls : ImportStart(c)
    \/ \E c \in Calls : ImportEntry(c)
    \/ \E c \in Calls : ImportReturn(c)

SpecImport == InitImport /\ [][NextImport]_vars

\* Two ImportKeys requests served at the same time (the web server runs each request in
\* its own goroutine), each with any list of entries, on a healthy store that holds any
\* of the keys imported earlier.
InitImportConc ==
    /\ InitPool("select")
    /\ \E ids \in SUBSET KeyIds :
          /\ store = ids
          /\ keyData = [id \in ids |-> EarlierCredential(id)]
    /\ usageCache = InitCache([id \in KeyIds |-> FALSE])
    /\ now = 0
    /\ env = [outcomes |-> {"ok"}, reads |-> {TRUE}, lists |-> {TRUE}, saves |-> {"ok"}]
    /\ pc = [c \in Calls |-> "idle"]
    /\ calc = NoCalc
    /\ agg = [c \in Calls |-> InitAgg]
    /\ bp = [c \in Calls |-> InitBp]
    /\ hist = InitHist
    /\ sessions = NoSessions
    /\ \E keys1 \in Lists(MaxConcInput) : \E keys2 \in Lists(MaxConcInput) :
          imp = [c \in Calls |->
                   IF c = 1 THEN [NoImport EXCEPT !.pc = "start", !.keys = keys1]
                   ELSE IF c = 2 THEN [NoImport EXCEPT !.pc = "start", !.keys = keys2]
                   ELSE NoImport]

SpecImportConc == InitImportConc /\ [][NextImport]_vars

\* the credentials of n bytes
RECURSIVE Credentials(_)
Credentials(n) ==
    IF n = 0 THEN {<<>>}
    ELSE {Append(cr, ch) : cr \in Credentials(n - 1), ch \in {"a", "b"}}

\* GetAllKeys on a store that holds one key, with any credential of up to MaxCred bytes.
InitMask ==
    /\ InitPool("select")
    /\ store = {1}
    /\ \E n \in 1..MaxCred : \E cr \in Credentials(n) : keyData = [id \in {1} |-> cr]
    /\ usageCache = InitCache([id \in KeyIds |-> FALSE])
    /\ now = 0
    /\ env = [outcomes |-> {"ok"}, reads |-> {TRUE}, lists |-> {TRUE}, saves |-> {"ok"}]
    /\ InitCalls({})

NextMask == GetAllKeys

SpecMask == InitMask /\ [][NextMask]_vars

\* One successful fetch for the one key of the store, with any credential of up to
\* MaxCred bytes.
NextEcho == FetchedRecord

SpecEcho == InitMask /\ [][NextEcho]_vars

\* One GetAggregatedData request on a running pool, on a store that holds any of the keys
\* (or none) and may fail when it lists them; the endpoint may fail in every way, the
\* usage cache is empty.
InitList ==
    /\ InitPool("select")
    /\ \E ids \in SUBSET KeyIds : InitKeys(ids)
    /\ usageCache = InitCache([id \in KeyIds |-> FALSE])
    /\ now = 0
    /\ env = [outcomes |-> Outcomes, reads |-> {TRUE}, lists |-> BOOLEAN, saves |-> {"ok"}]
    /\ InitCalls({1})

NextList ==
    \/ WorkerNext
    \/ CallNext

SpecList == InitList /\ [][NextList]_vars

\* One request on a running pool with a usage cache that may fail: a read of a record may
\* return an error, and the write-back may fail after storing none or some of its
\* records; the cache holds any records of an earlier round; the endpoint answers or
\* cannot be reached.
InitFault ==
    /\ InitPool("select")
    /\ InitKeys(KeyIds)
    /\ \E f \in CacheStates : usageCache = InitCache(f)
    /\ now = 0
    /\ env = [outcomes |-> {"ok", "transport"}, reads |-> BOOLEAN,
             lists |-> {TRUE}, saves |-> {"ok", "failed"}]
    /\ InitCalls({1})

SpecFault == InitFault /\ [][NextList]_vars

\* what an earlier batch that ran into its deadline can have left in a queue of the
\* pool: nothing, or one entry for any key
LeftTasks == {<<>>} \cup {<<id>> : id \in KeyIds}
LeftResults ==
    {<<>>} \cup {<<processTask(id, outcome, 0)>> : id \in KeyIds, outcome \in {"ok", "http"}}

\* One request over any set of stored keys on a running pool whose queues still hold
\* what an earlier batch left there: a task nobody has taken yet, a result nobody has
\* collected, for keys that the request may not list.
InitForeign ==
    /\ taskQueue \in LeftTasks
    /\ resultQueue \in LeftResults
    /\ sendq = <<>>
    /\ shutdown = FALSE
    /\ queuesClosed = FALSE
    /\ stopPc = "idle"
    /\ wpc = [w \in Workers |-> "select"]
    /\ wtask = [w \in Workers |-> NoTask]
    /\ wresult = [w \in Workers |-> NoResult]
    /\ activeWorkers = maxWorkers
    /\ processedTasks = Len(resultQueue)
    /\ \E ids \in SUBSET KeyIds : InitKeys(ids)
    /\ usageCache = InitCache([id \in KeyIds |-> FALSE])
    /\ now = 0
    /\ env = [outcomes |-> {"ok", "http"}, reads |-> {TRUE}, lists |-> {TRUE},
             saves |-> {"ok"}]
    /\ InitCalls({1})

NextForeign ==
    \/ WorkerNext
    \/ CallNext
    \/ \E c \in Calls : Forward(c)

SpecForeign == InitForeign /\ [][NextForeign]_vars

(* ------------------------------- claims ------------------------------- *)
\* the calls whose GetAggregatedData has returned a report for a non-empty key list
Reported == {c \in Calls : pc[c] = "done" /\ Len(agg[c].keys) > 0}

\* the calls whose BatchProcess has returned
Returned == {c \in Calls : pc[c] \in {"save", "done"} /\ Len(agg[c].uncachedKeys) > 0}

Ids(seq) == {seq[j] : j \in 1..Len(seq)}

\* C1: the report of a non-empty key list has exactly one entry per key, and
\* len(Data) = TotalCount = the number of keys.
C1_OneEntryPerKey ==
    \A c \in Reported :
        LET keys == agg[c].keys
            data == agg[c].report.Data
        IN  /\ Len(data) = Len(keys)
            /\ agg[c].report.TotalCount = Len(keys)
            /\ \A i \in 1..Len(keys) :
                 Cardinality({j \in 1..Len(data) : data[j].ID = keys[i]}) = 1

\* a report over two keys: one served from the cache, one that timed out
C1_Witness ==
    \E c \in Reported :
        /\ Len(agg[c].keys) = MaxKeys
        /\ Len(agg[c].cachedResults) >= 1
        /\ \E j \in 1..Len(agg[c].report.Data) :
             agg[c].report.Data[j].Error = "Processing timeout"
        /\ \E j \in 1..Len(agg[c].report.Data) : agg[c].report.Data[j].Error = ""

\* C2: the i-th element of Data carries the identifier of the i-th key.
C2_PositionsMatch ==
    \A c \in Reported :
        \A i \in 1..Len(agg[c].report.Data) :
            i <= Len(agg[c].keys) /\ agg[c].report.Data[i].ID = agg[c].keys[i]

\* C3: BatchProcess returns one record per key, the i-th with the identifier of keys[i],
\* whatever the order in which the workers complete.
C3_BatchOrder ==
    \A c \in Returned :
        /\ Len(agg[c].freshResults) = Len(agg[c].uncachedKeys)
        /\ \A i \in 1..Len(agg[c].uncachedKeys) :
             agg[c].freshResults[i].ID = agg[c].uncachedKeys[i]

\* a batch whose second key was fetched at an earlier instant than its first key
C3_Witness ==
    \E c \in Returned :
        /\ Len(agg[c].freshResults) >= 2
        /\ agg[c].freshResults[1].Error = ""
        /\ agg[c].freshResults[2].Error = ""
        /\ agg[c].freshResults[2].LastUpdated < agg[c].freshResults[1].LastUpdated

RECURSIVE SumOver(_, _, _)
\* the sum of field(data[j]) over the positions j of a set
SumOver(S, data, field) ==
    IF S = {} THEN 0
    ELSE LET j == CHOOSE x \in S : TRUE
         IN  data[j][field] + SumOver(S \ {j}, data, field)

ErrorFree(data) == {j \in 1..Len(data) : data[j].Error = ""}

Partitioned ==
    {c \in Calls : pc[c] \notin {"idle", "start", "partition"} /\ Len(agg[c].keys) > 0}

\* the calls whose submission loop is over
Submitted == {c \in Calls : pc[c] \in {"collect", "forward", "close", "save", "done"}}

\* the usage cache held, when the call read it, a record of the key younger than the window
HeldFresh(c, id) == id \in hist.heldFresh[c]

\* C5 as stated: a key is handed to BatchProcess if and only if the usage cache holds no
\* record of it younger than the freshness window; no task is enqueued for another key.
C5_SubmittedIffNotFresh ==
    \A c \in Partitioned :
        /\ \A id \in Ids(agg[c].keys) :
             id \in Ids(agg[c].uncachedKeys) <=> ~HeldFresh(c, id)
        /\ hist.enqueued[c] \subseteq {id \in Ids(agg[c].keys) : ~HeldFresh(c, id)}

\* C5 amended: a key is handed to BatchProcess if and only if the call's read of the usage
\* cache did not return (without error) a record younger than the freshness window; no
\* task is enqueued for any other key, and once the submission loop is over every key
\* handed over has been enqueued or given a queue-full placeholder.
C5_SubmittedIffNoFreshRead ==
    \A c \in Partitioned :
        /\ \A id \in Ids(agg[c].keys) :
             id \in Ids(agg[c].uncachedKeys)
                <=> ~(HeldFresh(c, id) /\ id \notin hist.readFailed[c])
        /\ hist.enqueued[c] \subseteq Ids(agg[c].uncachedKeys)
        /\ c \in Submitted =>
             Ids(agg[c].uncachedKeys) = hist.enqueued[c] \cup hist.queueFull[c]

\* a call that served one key from its fresh record and has enqueued a task for a key
\* whose record has just reached the age of the window
C5_Witness ==
    \E c \in Partitioned :
        \E id1, id2 \in Ids(agg[c].keys) :
            /\ HeldFresh(c, id1) /\ id1 \notin Ids(agg[c].uncachedKeys)
            /\ ~HeldFresh(c, id2) /\ id2 \in hist.enqueued[c]
            /\ usageCache[id2].ID = id2
            /\ now - usageCache[id2].LastUpdated = cacheTTL

\* C6: a batch whose every enqueue attempt found the task queue full returns, with a nil
\* error, one record per key in input order, each with a queue-full or timeout error.
C6_AllQueueFull ==
    \A c \in Returned :
        hist.queueFull[c] = Ids(agg[c].uncachedKeys) =>
            /\ bp[c].err = ""
            /\ Len(agg[c].freshResults) = Len(agg[c].uncachedKeys)
            /\ \A i \in 1..Len(agg[c].freshResults) :
                 /\ agg[c].freshResults[i].ID = agg[c].uncachedKeys[i]
                 /\ agg[c].freshResults[i].Error \in {"task queue full", "Processing timeout"}

\* C7: a Stop after Start returns, with every worker exited, whatever is left in the
\* queues and wherever the workers are.
C7_StopReturns ==
    (stopPc = "wait") ~>
        (stopPc = "done" /\ activeWorkers = 0 /\ \A w \in Workers : wpc[w] = "exited")

\* Stop has returned with a task still queued, the result queue full and a worker that
\* had been waiting to publish
C7_Witness ==
    /\ stopPc = "done"
    /\ \A w \in Workers : wpc[w] = "exited"
    /\ taskQueue # <<>>
    /\ Len(resultQueue) = queueSize
    /\ hist.dropped

\* C8: a key gets the "Processing timeout" placeholder only if the batch deadline fired.
C8_TimeoutOnlyAfterDeadline ==
    \A c \in Returned :
        (\E i \in 1..Len(agg[c].freshResults) :
            agg[c].freshResults[i].Error = "Processing timeout") => bp[c].ctxDone

\* C9: BatchProcess returns a nil error and GetAggregatedData does not fail on it; a key
\* whose result is a failure has a record with a non-empty error, and every other key
\* has its own result: the fetched record, or the timeout placeholder if none came.
C9_FailuresStayPerKey ==
    /\ \A c \in Calls : pc[c] # "batch_failed"
    /\ \A c \in Returned :
        /\ bp[c].err = ""
        /\ Len(agg[c].freshResults) = Len(agg[c].uncachedKeys)
        /\ \A i \in 1..Len(agg[c].uncachedKeys) :
             LET id == agg[c].uncachedKeys[i]
                 r == agg[c].freshResults[i]
             IN  /\ r.ID = id
                 /\ hist.lastKind[c][id] = "failed" => r.Error # ""
                 /\ hist.lastKind[c][id] = "ok" =>
                      /\ r.Error = ""
                      /\ r.TotalAllowance = RemoteAllowance(id)
                      /\ r.OrgTotalUsed = RemoteUsed(id)
                 /\ hist.lastKind[c][id] = "none" => r.Error = "Processing timeout"

\* a report in which one key failed in transport and another key has its fetched record
C9_Witness ==
    \E c \in Reported :
        /\ \E j \in 1..Len(agg[c].freshResults) :
             agg[c].freshResults[j].Error = "API request failed"
        /\ \E j \in 1..Len(agg[c].freshResults) :
             /\ agg[c].freshResults[j].Error = ""
             /\ agg[c].freshResults[j].LastUpdated = now
        /\ Len(agg[c].report.Data) = MaxKeys

\* C10: once DeleteKey(id) has completed the usage cache holds no record of id.
C10_NoRecordAfterDelete ==
    \A id \in hist.deleted : usageCache[id] = NoUsage

\* the positions of the fresh results of a call that carry no error
FreshValid(c) == {j \in 1..Len(agg[c].freshResults) : agg[c].freshResults[j].Error = ""}

\* C11: a call that has reported made at most one BatchSaveUsage call, whose records are
\* exactly the error-free fetched records of its batch (none when there is none), and
\* the cache then holds them; the usage cache never holds a record with an error and
\* every record served from the cache is error-free.
C11_WriteBackValidOnly ==
    /\ \A id \in KeyIds : usageCache[id].Error = ""
    /\ \A c \in Calls :
         /\ \A j \in 1..Len(agg[c].cachedResults) : agg[c].cachedResults[j].Error = ""
         /\ pc[c] # "done" => hist.saved[c] = <<>>
    /\ \A c \in Reported :
         LET fresh == agg[c].freshResults
         IN  IF FreshValid(c) = {}
             THEN hist.saved[c] = <<>>
             ELSE /\ Len(hist.saved[c]) = 1
                  /\ Len(hist.saved[c][1]) = Cardinality(FreshValid(c))
                  /\ \A j \in FreshValid(c) :
                       /\ \E l \in 1..Len(hist.saved[c][1]) :
                            hist.saved[c][1][l] = ToStorageUsage(fresh[j])
                       /\ usageCache[fresh[j].ID] = ToStorageUsage(fresh[j])

\* a report whose batch had a failed key, not written, beside a fetched key, written over
\* the stale record the cache held
C11_Witness ==
    \E c \in Reported :
        /\ \E j \in 1..Len(agg[c].freshResults) :
             /\ agg[c].freshResults[j].Error = "HTTP 500"
             /\ usageCache[agg[c].freshResults[j].ID] = NoUsage
        /\ \E j \in FreshValid(c) :
             /\ agg[c].freshResults[j].LastUpdated = cacheTTL
             /\ usageCache[agg[c].freshResults[j].ID].LastUpdated = cacheTTL
        /\ Len(hist.saved[c]) = 1
        /\ Len(hist.saved[c][1]) = 1

\* C12: a further Stop panics; once Stop has completed, a SubmitTask call panics and
\* leaves the task queue as it is, and an enqueue attempt of BatchProcess panics: none
\* of them returns normally, with or without an error.
C12_MisusePanics ==
    [][/\ StopAgain => hist'.stopPanicked
       /\ \A id \in KeyIds :
            (queuesClosed /\ SubmitTask(id)) =>
                /\ hist'.panicked
                /\ hist'.submits = hist.submits
                /\ taskQueue' = taskQueue
       /\ \A c \in Calls :
            (queuesClosed /\ (Submit(c) \/ Retry(c))) =>
                /\ pc'[c] = "panic"
                /\ taskQueue' = taskQueue
                /\ bp'[c] = bp[c]]_vars

\* Stop has completed, and a further Stop, a SubmitTask call and a BatchProcess call made
\* after it have each ended in a panic
C12_Witness ==
    /\ stopPc = "done"
    /\ hist.stopPanicked
    /\ hist.panicked
    /\ \E c \in Calls : pc[c] = "panic"

\* C13: on a pool whose queues are open a SubmitTask call ends in one of two ways and in
\* no other. It returns nil, and its task has been appended to the task queue once: at
\* the call when the buffer has room, or by the receive that frees a slot while the
\* caller is blocked. Or it returns "task queue is full" with the task queue unchanged,
\* and then the buffer was full at every instant of its wait. Every blocked caller
\* returns.
C13_SubmitTaskOutcomes ==
    /\ [](sendq # <<>> => Len(taskQueue) = queueSize)
    /\ [](hist.submits = hist.accepted + hist.rejected + Len(sendq)
            \/ (hist.panicked /\ hist.submits > hist.accepted + hist.rejected))
    /\ [][/\ \A id \in KeyIds :
              (~queuesClosed /\ SubmitTask(id)) =>
                 \/ /\ Len(taskQueue) < queueSize
                    /\ taskQueue' = Append(taskQueue, id)
                    /\ hist'.accepted = hist.accepted + 1
                    /\ hist'.rejected = hist.rejected
                    /\ sendq' = sendq
                 \/ /\ Len(taskQueue) = queueSize
                    /\ taskQueue' = taskQueue
                    /\ hist'.accepted = hist.accepted
                    /\ hist'.rejected = hist.rejected
                    /\ sendq' = Append(sendq, id)
          /\ hist'.accepted # hist.accepted =>
                 /\ hist'.accepted = hist.accepted + 1
                 /\ \E id \in KeyIds :
                      \/ taskQueue' = Append(taskQueue, id) /\ sendq' = sendq
                      \/ /\ sendq # <<>> /\ id = Head(sendq) /\ sendq' = Tail(sendq)
                         /\ taskQueue' = Append(Tail(taskQueue), id)
          /\ hist'.rejected # hist.rejected =>
                 /\ hist'.rejected = hist.rejected + 1
                 /\ Len(taskQueue) = queueSize
                 /\ taskQueue' = taskQueue
                 /\ sendq' = Tail(sendq)]_vars
    /\ []<>(sendq = <<>>)

\* on a running pool one call has returned nil at once, one has returned nil after a
\* wait, one has returned "task queue is full", and none is blocked
C13_Witness ==
    /\ ~shutdown
    /\ hist.submits = MaxSubmits
    /\ hist.accepted = 2
    /\ hist.rejected = 1
    /\ sendq = <<>>
    /\ \E w \in Workers : wpc[w] = "fetch"
    /\ Len(taskQueue) = queueSize

\* C14: the deadline of a batch of M >= 1 keys on N >= 1 workers is
\* min(300, 30 + 2 * floor(M / N)) seconds: at least 30, at most 300, not smaller than
\* the deadline of a batch with one key less, and longer than the 15 s of one fetch.
C14_Deadline ==
    calc.op = "timeoutDuration" =>
        LET full == baseTimeout + perKeyTimeout * (calc.M \div calc.N)
        IN  /\ calc.out = IF full < maxTimeout THEN full ELSE maxTimeout
            /\ calc.out >= 30
            /\ calc.out <= 300
            /\ calc.out > fetchTimeout
            /\ calc.M > 1 => timeoutDuration(calc.M - 1, calc.N) <= calc.out

\* a batch large enough for the upper limit to apply
C14_Witness ==
    /\ calc.op = "timeoutDuration"
    /\ baseTimeout + perKeyTimeout * (calc.M \div calc.N) > maxTimeout
    /\ calc.out = maxTimeout

\* the indices of the entries that are not blank: some byte is not white space
NonBlank(keys) == {j \in 1..Len(keys) : \E k \in 1..Len(keys[j]) : keys[j][k] \notin WhiteSpace}

\* an entry without the white space before its first and after its last other byte
Trimmed(str) ==
    LET solid == {k \in 1..Len(str) : str[k] \notin WhiteSpace}
        first == CHOOSE k \in solid : \A l \in solid : k <= l
        last == CHOOSE k \in solid : \A l \in solid : l <= k
    IN  IF solid = {} THEN <<>> ELSE [k \in 1..(last - first + 1) |-> str[first + k - 1]]

\* the distinct trimmed credentials of the input that the store did not hold at the call
NewCredentials(c) == {Trimmed(imp[c].keys[j]) : j \in NonBlank(imp[c].keys)} \ hist.importBase[c]

\* C15: when every save succeeds, ImportKeys returns success = the number of distinct
\* trimmed non-blank credentials of the input that were not already stored, duplicates =
\* the number of the remaining non-blank entries, and failed = 0.
C15_ImportCounts ==
    \A c \in Calls :
        (imp[c].pc = "done" /\ env.saves = {"ok"}) =>
            /\ imp[c].result.Success = Cardinality(NewCredentials(c))
            /\ imp[c].result.Duplicates =
                   Cardinality(NonBlank(imp[c].keys)) - Cardinality(NewCredentials(c))
            /\ imp[c].result.Failed = 0

\* ["A", "A", "B"] on an empty store gives success 2, duplicates 1, failed 0
C15_Witness ==
    /\ imp[1].pc = "done"
    /\ env.saves = {"ok"}
    /\ imp[1].keys = << <<"A">>, <<"A">>, <<"B">> >>
    /\ hist.importBase[1] = {}
    /\ imp[1].result = [Success |-> 2, Duplicates |-> 1, Failed |-> 0]

\* C16: ImportKeys never stores a key for a blank or whitespace-only entry (the round of
\* such an entry leaves the key store as it is, and no stored credential is blank), and
\* when it returns without error success + failed + duplicates is the number of
\* non-blank entries of the input.
C16_BlankSkippedAllCounted ==
    /\ [][\A c \in Calls :
            (ImportEntry(c) /\ imp[c].i \notin NonBlank(imp[c].keys)) =>
                /\ UNCHANGED <<store, keyData>>
                /\ imp'[c].result = imp[c].result]_vars
    /\ [](\A id \in DOMAIN keyData : \E k \in 1..Len(keyData[id]) : keyData[id][k] \notin WhiteSpace)
    /\ [](\A c \in Calls :
            imp[c].pc = "done" =>
                imp[c].result.Success + imp[c].result.Failed + imp[c].result.Duplicates
                    = Cardinality(NonBlank(imp[c].keys)))

\* a returned call whose input had a blank entry, a credential that was saved and one
\* whose save failed
C16_Witness ==
    /\ imp[1].pc = "done"
    /\ \E j \in 1..Len(imp[1].keys) : j \notin NonBlank(imp[1].keys)
    /\ imp[1].result.Success = 1
    /\ imp[1].result.Failed = 1

\* C17: the masked credential that GetAllKeys returns for a credential of length >= 9
\* is its first 4 characters, then "...", then its last 4 characters; for a credential of
\* length <= 8 it is the credential itself.
C17_Masked ==
    calc.op = "GetAllKeys" =>
        /\ {calc.out[j].ID : j \in 1..Len(calc.out)} = store
        /\ \A j \in 1..Len(calc.out) :
              LET key == keyData[calc.out[j].ID]
                  masked == calc.out[j].Masked
              IN  IF Len(key) >= 9
                  THEN /\ Len(masked) = 11
                       /\ \A k \in 1..4 : masked[k] = key[k]
                       /\ \A k \in 5..7 : masked[k] = "."
                       /\ \A k \in 8..11 : masked[k] = key[Len(key) - 11 + k]
                  ELSE masked = key

\* a credential of nine bytes, masked, and its last four bytes differ from its first four
C17_Witness ==
    /\ calc.op = "GetAllKeys"
    /\ Len(calc.out) = 1
    /\ Len(keyData[1]) = 9
    /\ calc.out[1].Masked = <<"a", "a", "b", "a", ".", ".", ".", "b", "b", "a", "b">>

\* C18: if the key store fails when GetAggregatedData lists the keys, the call returns an
\* error and no report, no task is enqueued on the worker pool and nothing is written to
\* the usage cache.
C18_ListFailure ==
    \A c \in hist.listFailed :
        /\ pc[c] = "list_failed"
        /\ agg[c] = InitAgg
        /\ bp[c] = InitBp
        /\ hist.enqueued[c] = {} /\ hist.queueFull[c] = {}
        /\ hist.saved[c] = <<>>
        /\ taskQueue = <<>> /\ sendq = <<>> /\ resultQueue = <<>>
        /\ \A w \in Workers : wpc[w] = "select"
        /\ usageCache = InitCache([id \in KeyIds |-> FALSE])

\* the store holds keys and the listing failed
C18_Witness ==
    /\ 1 \in hist.listFailed
    /\ store = KeyIds

\* C19: whenever the key list can be read, GetAggregatedData returns a well-formed report
\* and a nil error (it has no error exit after the listing, and where nothing more can
\* happen it has returned): with zero keys TotalCount 0, zero totals and an empty Data
\* list without using the worker pool; with M keys none of which succeeds M error
\* records and zero totals.
C19_ReportAlways ==
    \A c \in Calls \ hist.listFailed :
        /\ pc[c] \notin {"list_failed", "batch_failed"}
        /\ (~ENABLED NextList) => pc[c] \in {"idle", "done"}
        /\ pc[c] = "done" =>
              LET report == agg[c].report
              IN  /\ report.TotalCount = Cardinality(store)
                  /\ Len(report.Data) = report.TotalCount
                  /\ {report.Data[j].ID : j \in 1..Len(report.Data)} = store
                  /\ report.Totals.TotalAllowance >= 0
                  /\ report.Totals.TotalOrgTotalTokensUsed >= 0
                  /\ store = {} =>
                        /\ report = [TotalCount |-> 0,
                                      Totals |-> [TotalAllowance |-> 0,
                                                  TotalOrgTotalTokensUsed |-> 0],
                                      Data |-> <<>>]
                        /\ bp[c] = InitBp
                        /\ hist.enqueued[c] = {} /\ hist.queueFull[c] = {}
                        /\ taskQueue = <<>> /\ resultQueue = <<>>
                        /\ \A w \in Workers : wpc[w] = "select"
                  /\ (\A j \in 1..Len(report.Data) : report.Data[j].Error # "") =>
                        /\ report.Totals = [TotalAllowance |-> 0, TotalOrgTotalTokensUsed |-> 0]
                        /\ Len(report.Data) = Cardinality(store)

\* a report for all the keys of the store, every one of them with an error record
C19_Witness ==
    /\ pc[1] = "done"
    /\ store = KeyIds
    /\ Len(agg[1].report.Data) = MaxKeys
    /\ \A j \in 1..Len(agg[1].report.Data) : agg[1].report.Data[j].Error # ""
    /\ agg[1].report.Totals = [TotalAllowance |-> 0, TotalOrgTotalTokensUsed |-> 0]

\* C20: Stop raises the shutdown signal, waits until every worker has exited, then closes
\* the task queue and the result queue: the signal is up while Stop waits and the queues
\* are still open then; the queues are closed only in a step that finds every worker
\* exited; no worker is at a receive or a send, and none moves, once the queues are
\* closed; and after Stop has returned no worker is running.
C20_StopOrder ==
    /\ [](stopPc = "idle" => ~shutdown /\ ~queuesClosed)
    /\ [](stopPc = "wait" => shutdown /\ ~queuesClosed)
    /\ [](stopPc = "done" => shutdown /\ queuesClosed)
    /\ [][(~queuesClosed /\ queuesClosed') =>
            /\ shutdown
            /\ \A w \in Workers : wpc[w] = "exited"]_vars
    /\ [](queuesClosed => activeWorkers = 0 /\ \A w \in Workers : wpc[w] = "exited")
    /\ [][queuesClosed =>
            /\ UNCHANGED <<wpc, wtask, wresult, processedTasks>>
            /\ Len(taskQueue') = Len(taskQueue)
            /\ Len(resultQueue') <= Len(resultQueue)]_vars

\* Stop has returned on a pool that had published results and had a worker at each of
\* its two exits
C20_Witness ==
    /\ stopPc = "done"
    /\ queuesClosed
    /\ processedTasks >= 2
    /\ hist.dropped
    /\ activeWorkers = 0

\* the keys of the batch for which a result has been recorded: handed to the collector
\* (a fetched result or a queue-full placeholder) or already in the result map
Recorded(c) ==
    {bp[c].resultChan[j].ID : j \in 1..Len(bp[c].resultChan)} \cup DOMAIN bp[c].resultMap

\* C21: the collection phase of BatchProcess ends when a result has been recorded for each
\* of the M keys or the deadline elapses: it is not waiting in the collection loop once
\* every key of the batch has its result.
C21_CollectionEnds ==
    \A c \in Calls :
        pc[c] = "collect" => ~(Ids(agg[c].uncachedKeys) \subseteq Recorded(c))

\* C22: when the batch deadline fires, BatchProcess takes no further result from the
\* result queue; in its output every key for which a result was recorded before the
\* deadline carries that result, and every other key a record with the error
\* "Processing timeout".
C22_AfterDeadline ==
    /\ [][\A c \in Calls :
            bp[c].ctxDone =>
                /\ ~CollectRecv(c)
                /\ bp'[c].received = bp[c].received
                /\ bp'[c].ctxDone]_vars
    /\ [](\A c \in Returned :
            bp[c].ctxDone =>
                /\ Len(agg[c].freshResults) = Len(agg[c].uncachedKeys)
                /\ \A i \in 1..Len(agg[c].uncachedKeys) :
                      LET id == agg[c].uncachedKeys[i]
                      IN  agg[c].freshResults[i] =
                            IF id \in DOMAIN hist.atDeadline[c]
                            THEN hist.atDeadline[c][id]
                            ELSE ErrorUsage(id, "Processing timeout"))

\* a batch cut short by its deadline returns the fetched record of one key and the
\* timeout record of another
C22_Witness ==
    \E c \in Returned :
        /\ bp[c].ctxDone
        /\ \E i, j \in 1..Len(agg[c].freshResults) :
              /\ agg[c].freshResults[i].Error = ""
              /\ agg[c].freshResults[i].ID \in DOMAIN hist.atDeadline[c]
              /\ agg[c].freshResults[j].Error = "Processing timeout"
              /\ agg[c].freshResults[j].ID \notin DOMAIN hist.atDeadline[c]

\* the key whose task the call is submitting
Submitting(c) == agg[c].uncachedKeys[bp[c].i]

\* the task of key id is in the pool: queued, with a worker, or as a result
InPool(id) ==
    \/ \E j \in 1..Len(taskQueue) : taskQueue[j] = id
    \/ \E w \in Workers : wpc[w] = "fetch" /\ wtask[w] = id
    \/ \E w \in Workers : wpc[w] = "publish" /\ wresult[w].ID = id
    \/ \E j \in 1..Len(resultQueue) : resultQueue[j].ID = id

\* C23: per key BatchProcess makes at most two non-blocking enqueue attempts (the first
\* either enqueues the task or leads to the second, the second always ends the key's
\* turn); if both find the task queue full it records a "task queue full" placeholder and
\* never places the key's task on the task queue, so that no worker fetches the key for
\* this batch and the key's record is the placeholder.
C23_TwoAttempts ==
    /\ [][\A c \in Calls :
            /\ bp'[c].i >= bp[c].i
            /\ Submit(c) =>
                  \/ /\ bp'[c].i = bp[c].i + 1
                     /\ Len(taskQueue) < queueSize
                     /\ taskQueue' = Append(taskQueue, Submitting(c))
                  \/ /\ pc'[c] = "retry" /\ bp'[c].i = bp[c].i
                     /\ Len(taskQueue) = queueSize
                     /\ UNCHANGED taskQueue
            /\ Retry(c) =>
                  /\ bp'[c].i = bp[c].i + 1
                  /\ pc'[c] # "retry"
                  /\ \/ /\ Len(taskQueue) < queueSize
                        /\ taskQueue' = Append(taskQueue, Submitting(c))
                        /\ bp'[c].resultChan = bp[c].resultChan
                     \/ /\ Len(taskQueue) = queueSize
                        /\ UNCHANGED taskQueue
                        /\ bp'[c].resultChan =
                              Append(bp[c].resultChan,
                                     Result(Submitting(c), NoUsage, "task queue full"))]_vars
    /\ [](\A c \in Calls : \A id \in hist.queueFull[c] :
            /\ id \notin hist.enqueued[c]
            /\ ~InPool(id)
            /\ id \in DOMAIN bp[c].resultMap =>
                  bp[c].resultMap[id] = ErrorUsage(id, "task queue full")
            /\ c \in Returned =>
                  \E i \in 1..Len(agg[c].freshResults) :
                      agg[c].freshResults[i] = ErrorUsage(id, "task queue full"))

\* a returned batch in which one key was enqueued at the second attempt or the first and
\* fetched, and another key got the placeholder
C23_Witness ==
    \E c \in Returned :
        /\ hist.queueFull[c] # {}
        /\ \E i \in 1..Len(agg[c].freshResults) : agg[c].freshResults[i].Error = ""
        /\ \E i \in 1..Len(agg[c].freshResults) :
              agg[c].freshResults[i].Error = "task queue full"

\* C24: if the shutdown signal is raised while a worker is blocked publishing a result to
\* a full result queue, the worker exits without publishing: from then on it only waits
\* or exits, also when the queue gets room; its exit adds nothing to the result queue and
\* leaves processedTasks as it is; a worker blocks only on a full queue.
C24_BlockedWorkerDrops ==
    /\ [](\A w \in Workers :
            (wpc[w] = "blocked" /\ ~shutdown) => Len(resultQueue) = queueSize)
    /\ [][\A w \in Workers :
            (wpc[w] = "blocked" /\ shutdown) =>
                /\ wpc'[w] \in {"blocked", "exited"}
                /\ wpc'[w] = "blocked" => wresult'[w] = wresult[w]
                /\ hist'.published > hist.published =>
                      \E v \in Workers \ {w} : wpc[v] = "publish" /\ wpc'[v] = "count"
                /\ wpc'[w] = "exited" =>
                      /\ wresult'[w] = NoResult
                      /\ UNCHANGED <<resultQueue, processedTasks>>]_vars

\* Stop has returned; a worker that was blocked when the signal came has exited, its
\* result is in no queue and not counted, the result queue has been emptied since
C24_Witness ==
    /\ stopPc = "done"
    /\ hist.lostBlocked
    /\ resultQueue = <<>>
    /\ processedTasks < hist.fetched

\* C25: a worker exits only while it waits for a task or waits to publish a result; a
\* worker that has taken a task stays in the fetch until the fetch has produced the
\* result for that task (a usage record or an error), whether or not the shutdown
\* signal is raised meanwhile, and only then comes to a point where it reads the signal.
C25_ExitAtSafePoint ==
    [][\A w \in Workers :
          /\ (wpc[w] # "exited" /\ wpc'[w] = "exited") =>
                wpc[w] \in {"select", "publish", "blocked"}
          /\ wpc[w] = "fetch" =>
                /\ wpc'[w] \in {"fetch", "publish"}
                /\ wpc'[w] = "fetch" => wtask'[w] = wtask[w]
                /\ wpc'[w] = "publish" =>
                      /\ wresult'[w].ID = wtask[w]
                      /\ wresult'[w].Usage # NoUsage \/ wresult'[w].Error # ""]_vars

\* a fetch ended after the signal was raised, and the worker that made it has exited
C25_Witness ==
    /\ shutdown
    /\ hist.lateFetch
    /\ hist.dropped
    /\ \A w \in Workers : wpc[w] = "exited"

\* the workers that hold a task: fetching it, or holding its result before the send
Holding == {w \in Workers : wpc[w] \in {"fetch", "publish", "blocked"}}

\* the workers that run: started and not yet returned
Running == {w \in Workers : wpc[w] \notin {"spawned", "exited"}}

\* C26: the pool has exactly maxWorkers workers and each holds at most one task, so the
\* tasks taken from the task queue whose result is neither published nor dropped are
\* those the workers hold, at most maxWorkers; activeWorkers is the number of running
\* workers, within 0..maxWorkers, and is 0 once Stop has returned.
C26_InFlightBounded ==
    /\ Cardinality(Workers) = maxWorkers
    /\ \A w \in Workers :
          /\ wtask[w] # NoTask <=> wpc[w] = "fetch"
          /\ wresult[w] # NoResult <=> wpc[w] \in {"publish", "blocked"}
    /\ hist.taken - hist.published - hist.lost = Cardinality(Holding)
    /\ hist.taken - hist.published - hist.lost \in 0..maxWorkers
    /\ activeWorkers = Cardinality(Running)
    /\ activeWorkers \in 0..maxWorkers
    /\ stopPc = "done" => activeWorkers = 0

\* every worker holds a task, after earlier tasks were published or dropped
C26_Witness ==
    /\ hist.taken - hist.published - hist.lost = maxWorkers
    /\ hist.taken > maxWorkers
    /\ activeWorkers = maxWorkers

\* the workers that are in the fetch of a task
Fetching == {w \in Workers : wpc[w] = "fetch"}

\* C27: every task placed on the task queue is either still there or was taken once, by
\* one worker, and a taken task is in its fetch or was fetched once; a worker enters a
\* fetch only by taking the head of the task queue, which no other worker gets in that
\* step; a fetch that ends, with a record or with any failure, puts nothing on the task
\* queue nor among the blocked senders, and the worker leaves the task behind.
C27_AtMostOnce ==
    /\ [](/\ hist.accepted = hist.taken + Len(taskQueue)
          /\ hist.taken = hist.fetched + Cardinality(Fetching))
    /\ [][\A w \in Workers :
            /\ (wpc[w] # "fetch" /\ wpc'[w] = "fetch") =>
                  /\ wpc[w] = "select"
                  /\ taskQueue # <<>>
                  /\ wtask'[w] = Head(taskQueue)
                  /\ hist'.taken = hist.taken + 1
                  /\ Len(taskQueue') + Len(sendq') = Len(taskQueue) + Len(sendq) - 1
                  /\ \A v \in Workers \ {w} : wpc'[v] = wpc[v] /\ wtask'[v] = wtask[v]
            /\ (wpc[w] = "fetch" /\ wpc'[w] # "fetch") =>
                  /\ wpc'[w] = "publish"
                  /\ wtask'[w] = NoTask
                  /\ hist'.fetched = hist.fetched + 1
                  /\ UNCHANGED <<taskQueue, sendq>>]_vars

\* a fetch has failed, the worker holds the failure as its result, and every task that
\* was placed on the queue has been taken and fetched once
C27_Witness ==
    /\ \E w \in Workers :
          /\ wpc[w] \in {"publish", "blocked"}
          /\ wresult[w].Error # "" \/ wresult[w].Usage.Error # ""
    /\ taskQueue = <<>>
    /\ hist.accepted >= 2
    /\ hist.fetched = hist.accepted

\* a result of a fetch that received a non-200 status
StatusFailure(result) == result.Usage.Error = "HTTP 500"

\* C28: a fetch that receives a non-200 status gives a result with a nil error whose
\* record has the key's identifier and the error "HTTP <status>" and nothing else (the
\* Go error of a result is only ever a transport or a decode failure); publishing it
\* appends it to the result queue and adds one to processedTasks; the batch that
\* receives it counts it as received and records it under its key; in the report the
\* record stands at its key's place, is left out of the totals and of the write-back,
\* and the cache does not take it.
C28_StatusFailureProcessed ==
    /\ [](\A w \in Workers :
            LET r == wresult[w]
            IN  /\ r.Error \in {"", "API request failed", "failed to decode response"}
                /\ r.Usage.Error # "" =>
                      /\ r.ID \in KeyIds
                      /\ r = Result(r.ID, ErrorUsage(r.ID, "HTTP 500"), ""))
    /\ [](\A c \in Reported :
            LET fresh == agg[c].freshResults
                data == agg[c].report.Data
                base == Len(agg[c].cachedResults)
            IN  \A j \in 1..Len(fresh) :
                  fresh[j].Error = "HTTP 500" =>
                     /\ fresh[j] = ErrorUsage(agg[c].uncachedKeys[j], "HTTP 500")
                     /\ data[base + j] = fresh[j]
                     /\ agg[c].report.Totals.TotalAllowance =
                           SumOver(ErrorFree(data) \ {base + j}, data, "TotalAllowance")
                     /\ agg[c].report.Totals.TotalOrgTotalTokensUsed =
                           SumOver(ErrorFree(data) \ {base + j}, data, "OrgTotalUsed")
                     /\ \A k \in 1..Len(hist.saved[c]) : \A l \in 1..Len(hist.saved[c][k]) :
                           hist.saved[c][k][l].ID # fresh[j].ID
                     /\ usageCache[fresh[j].ID].Error = "")
    /\ [][/\ \A w \in Workers :
              (wpc[w] = "publish" /\ StatusFailure(wresult[w]) /\ wpc'[w] # "publish") =>
                 /\ resultQueue' = Append(resultQueue, wresult[w])
                 /\ processedTasks' = processedTasks + 1
          /\ \A c \in Calls :
              /\ (/\ pc[c] = "collect" /\ resultQueue # <<>>
                  /\ StatusFailure(Head(resultQueue)) /\ resultQueue' = Tail(resultQueue)) =>
                    /\ bp'[c].received = bp[c].received + 1
                    /\ bp'[c].resultChan = Append(bp[c].resultChan, Head(resultQueue))
              /\ (/\ bp[c].resultChan # <<>> /\ StatusFailure(Head(bp[c].resultChan))
                  /\ Len(bp'[c].resultChan) < Len(bp[c].resultChan)) =>
                    LET id == Head(bp[c].resultChan).ID
                    IN  /\ id \in DOMAIN bp'[c].resultMap
                        /\ bp'[c].resultMap[id] = ErrorUsage(id, "HTTP 500")]_vars

\* a report of two fetched keys: one got a non-200 status, was counted by the pool and
\* by the batch and is not in the cache; the other was written back
C28_Witness ==
    \E c \in Reported :
        /\ \E j \in 1..Len(agg[c].freshResults) : agg[c].freshResults[j].Error = "HTTP 500"
        /\ processedTasks = 2
        /\ bp[c].received = 2
        /\ Len(hist.saved[c]) = 1
        /\ Len(hist.saved[c][1]) = 1

\* C29: the Key of a successfully fetched record is the first 4 characters, "..." and
\* the last 4 characters of a credential of length >= 9, and is the credential itself
\* when its length is <= 8.
C29_EchoedKey ==
    calc.op = "fetchUsageFromAPI" =>
        LET key == keyData[calc.out.ID]
            masked == calc.out.Key
        IN  IF Len(key) >= 9
            THEN /\ Len(masked) = 11
                 /\ \A k \in 1..4 : masked[k] = key[k]
                 /\ \A k \in 5..7 : masked[k] = "."
                 /\ \A k \in 8..11 : masked[k] = key[Len(key) - 11 + k]
            ELSE masked = key

\* the workers that have sent a result and not yet incremented processedTasks
Counting == {w \in Workers : wpc[w] = "count"}

\* C30 as stated: processedTasks never decreases and in every reachable state equals the
\* number of results that the workers have published on the result queue, so it never
\* exceeds the number of tasks taken; GetStats changes nothing of the pool.
C30_CounterEqualsPublished ==
    /\ [](/\ processedTasks = hist.published
          /\ processedTasks <= hist.taken)
    /\ [][processedTasks' >= processedTasks]_vars
    /\ [][calc' # calc => UNCHANGED poolVars]_vars

\* C30, amended: processedTasks never decreases and grows by one at a time; it never
\* exceeds the number of published results, which never exceeds the number of tasks
\* taken; it is behind by exactly the number of workers that have sent their result and
\* not yet incremented the counter, so it equals the number of published results
\* whenever no worker is between the two; GetStats returns the current counters, queue
\* lengths and capacities and changes nothing.
C30_CounterFollowsPublished ==
    /\ [](/\ hist.published - processedTasks = Cardinality(Counting)
          /\ processedTasks <= hist.published
          /\ hist.published <= hist.fetched
          /\ hist.fetched <= hist.taken)
    /\ [][processedTasks' \in {processedTasks, processedTasks + 1}]_vars
    /\ [][calc' # calc =>
            /\ calc'.op = "GetStats"
            /\ calc'.out = [active_workers |-> activeWorkers,
                            queue_size |-> Len(taskQueue),
                            result_queue_size |-> Len(resultQueue),
                            processed_tasks |-> processedTasks,
                            max_workers |-> maxWorkers,
                            queue_capacity |-> queueSize]
            /\ UNCHANGED <<poolVars, store, usageCache, now, pc, agg, bp, env, keyData,
                           imp, sessions, hist>>]_vars

\* GetStats was called when a result was on the result queue and processedTasks was
\* still 0; the counter has since caught up with the published results
C30_Witness ==
    /\ calc.op = "GetStats"
    /\ calc.out.result_queue_size = 1
    /\ calc.out.processed_tasks = 0
    /\ processedTasks >= 1
    /\ processedTasks = hist.published

\* C31: on a pool that is not stopped and whose result queue keeps being drained, the
\* n-th task placed on the task queue is eventually taken and its result published (the
\* counts of published, fetched and taken tasks follow one another and the number of
\* placed tasks); no result is dropped; a worker's result carries the identifier
\* of the task it took, and the published count grows by one exactly when one worker's
\* result is appended to the result queue.
C31_TaskEventuallyPublished ==
    /\ [](/\ hist.lost = 0
          /\ hist.published <= hist.fetched
          /\ hist.fetched <= hist.taken
          /\ hist.taken <= hist.accepted)
    /\ \A n \in 1..MaxSubmits : (hist.accepted >= n) ~> (hist.published >= n)
    /\ [][/\ \A w \in Workers :
              /\ (wpc[w] = "fetch" /\ wpc'[w] # "fetch") =>
                    wpc'[w] = "publish" /\ wresult'[w].ID = wtask[w]
              /\ (wpc[w] # "count" /\ wpc'[w] = "count") =>
                    /\ wresult[w].ID \in KeyIds
                    /\ resultQueue' # <<>>
                    /\ resultQueue'[Len(resultQueue')] = wresult[w]
                    /\ hist'.published = hist.published + 1
          /\ hist'.published # hist.published =>
                Cardinality({w \in Workers : wpc[w] # "count" /\ wpc'[w] = "count"}) = 1]_vars

\* every task that could be submitted was placed, taken, fetched, published and counted,
\* and the results have all been taken
C31_Witness ==
    /\ ~shutdown
    /\ hist.accepted = MaxSubmits
    /\ hist.published = MaxSubmits
    /\ processedTasks = MaxSubmits
    /\ resultQueue = <<>>

\* the calls that are inside BatchProcess
InBatch == {c \in Calls : pc[c] \in {"submit", "retry", "collect", "forward", "close"}}

\* C32: on a pool that is not stopped every BatchProcess call eventually returns, also
\* when the workers stall, the task queue is full and another call takes its results;
\* no call panics.
C32_BatchReturns ==
    /\ [](\A c \in Calls : pc[c] # "panic")
    /\ \A c \in Calls : (c \in InBatch) ~> (pc[c] \in {"save", "done"})

\* a call of MaxKeys keys has returned through its deadline; one of its keys got the
\* queue-full placeholder and a task is still waiting in the task queue
C32_Witness ==
    \E c \in Calls :
        /\ pc[c] \in {"save", "done"}
        /\ Len(agg[c].uncachedKeys) = MaxKeys
        /\ bp[c].ctxDone
        /\ hist.queueFull[c] # {}
        /\ taskQueue # <<>>

\* C33: the result map of a batch changes only by its collector recording the head of
\* the batch's channel; the ordered pass starts only when that channel is empty and
\* reads the map as it then is; so when the call has returned, nothing is left in the
\* channel or on its way to it, and every key of the batch for which the call took a
\* result from the result queue or recorded a queue-full placeholder has its record in
\* the map and in the output, not the timeout placeholder.
C33_NoResultLost ==
    /\ [](\A c \in Returned :
            /\ bp[c].resultChan = <<>>
            /\ bp[c].held = NoResult
            /\ \A i \in 1..Len(agg[c].uncachedKeys) :
                  LET id == agg[c].uncachedKeys[i]
                  IN  hist.lastKind[c][id] # "none" =>
                         /\ id \in DOMAIN bp[c].resultMap
                         /\ agg[c].freshResults[i] = bp[c].resultMap[id]
                         /\ agg[c].freshResults[i].Error # "Processing timeout")
    /\ [][\A c \in Calls :
            /\ bp'[c].resultMap # bp[c].resultMap =>
                  /\ bp[c].resultChan # <<>>
                  /\ bp'[c].resultChan = Tail(bp[c].resultChan)
                  /\ bp'[c].resultMap = RecordAll(bp[c].resultMap, <<Head(bp[c].resultChan)>>)
                  /\ \A d \in Calls \ {c} : bp'[d] = bp[d]
            /\ (pc[c] = "close" /\ pc'[c] # "close") =>
                  /\ bp[c].resultChan = <<>>
                  /\ bp'[c].resultMap = bp[c].resultMap
                  /\ agg'[c].freshResults =
                        OrderedResults(agg[c].uncachedKeys, bp[c].resultMap)]_vars

\* a call returned before its deadline with a record for each of its keys, one of them
\* the queue-full placeholder
C33_Witness ==
    \E c \in Returned :
        /\ ~bp[c].ctxDone
        /\ hist.queueFull[c] # {}
        /\ \A i \in 1..Len(agg[c].uncachedKeys) :
              hist.lastKind[c][agg[c].uncachedKeys[i]] # "none"
        /\ \E i \in 1..Len(agg[c].freshResults) :
              agg[c].freshResults[i].Error = "task queue full"

\* the identifiers of the records of a sequence
RecordIds(records) == {records[j].ID : j \in 1..Len(records)}

\* C34: the output of BatchProcess has, at each position, a record with the identifier
\* of the input key at that position; the Data of the report has records of the listed
\* keys only; a write-back stores records of keys of the fetched batch only, each under
\* its own identifier, and the cache changes for no other key; also when the batch has
\* taken results of tasks that it did not submit.
C34_OnlyInputKeys ==
    /\ [](\A c \in Returned :
            /\ Len(agg[c].freshResults) = Len(agg[c].uncachedKeys)
            /\ \A i \in 1..Len(agg[c].uncachedKeys) :
                  agg[c].freshResults[i].ID = agg[c].uncachedKeys[i])
    /\ [](\A c \in Reported :
            /\ RecordIds(agg[c].report.Data) \subseteq RecordIds([j \in 1..Len(agg[c].keys) |->
                                                                  [ID |-> agg[c].keys[j]]])
            /\ \A k \in 1..Len(hist.saved[c]) :
                  RecordIds(hist.saved[c][k]) \subseteq
                     {agg[c].uncachedKeys[i] : i \in 1..Len(agg[c].uncachedKeys)})
    /\ [](\A id \in KeyIds : usageCache[id].ID \in {0, id})
    /\ [][\A id \in KeyIds :
            usageCache'[id] # usageCache[id] =>
               \E c \in Calls :
                  /\ pc[c] = "save"
                  /\ \E i \in 1..Len(agg[c].uncachedKeys) : agg[c].uncachedKeys[i] = id]_vars

\* a report over the one stored key, whose batch had recorded the valid result of a task
\* for a key that the request never listed, after its send to the collector had waited;
\* the Data has the listed key alone and the cache has no record of the other key
C34_Witness ==
    \E c \in Reported :
        /\ Len(agg[c].keys) = 1
        /\ \E id \in DOMAIN bp[c].resultMap :
              /\ id # agg[c].keys[1]
              /\ bp[c].resultMap[id].Error = ""
              /\ usageCache[id] = NoUsage
        /\ Len(agg[c].report.Data) = 1
        /\ agg[c].report.Data[1].ID = agg[c].keys[1]
        /\ hist.queueFull[c] # {}

\* C35: no two keys of the key store hold the same credential.
C35_NoDuplicateCredential ==
    \A a \in store \cap DOMAIN keyData : \A b \in store \cap DOMAIN keyData :
        a # b => keyData[a] # keyData[b]

\* C36: a key whose cached record could not be read, or is missing or too old, is
\* handed to BatchProcess, and every other key is served from the cache; the request
\* never fails for it; BatchProcess returns one record for each key handed over; the
\* report has one record for each listed key and is computed from the cached and the
\* fetched records alone, whether the write-back succeeds, fails, or stores only part.
C36_CacheFaultsPerKey ==
    /\ [](\A c \in Calls : pc[c] \notin {"batch_failed", "list_failed", "panic"})
    /\ [](\A c \in Partitioned : \A id \in Ids(agg[c].keys) :
            IF id \in hist.readFailed[c] \/ ~HeldFresh(c, id)
            THEN id \in Ids(agg[c].uncachedKeys)
            ELSE /\ id \notin Ids(agg[c].uncachedKeys)
                 /\ id \in RecordIds(agg[c].cachedResults))
    /\ [](\A c \in Returned :
            /\ Len(agg[c].freshResults) = Len(agg[c].uncachedKeys)
            /\ RecordIds(agg[c].freshResults) = Ids(agg[c].uncachedKeys))
    /\ [](\A c \in Reported :
            /\ Len(agg[c].report.Data) = Len(agg[c].keys)
            /\ RecordIds(agg[c].report.Data) = Ids(agg[c].keys)
            /\ agg[c].report =
                  AggregatedData(agg[c].keys,
                                 CombineResults(agg[c].cachedResults, agg[c].freshResults)))
    /\ [][\A c \in Calls :
            (pc[c] = "save" /\ pc'[c] # "save") =>
               /\ pc'[c] = "done"
               /\ agg'[c].report =
                     AggregatedData(agg[c].keys,
                                    CombineResults(agg[c].cachedResults, agg[c].freshResults))]_vars

\* a report of all keys after the read of a fresh cached record had failed and the
\* write-back had failed too: a fetched record is in the report and not in the cache
C36_Witness ==
    \E c \in Reported :
        /\ hist.readFailed[c] # {}
        /\ hist.saveFailed[c]
        /\ Len(agg[c].report.Data) = MaxKeys
        /\ \E j \in FreshValid(c) :
              usageCache[agg[c].freshResults[j].ID] # ToStorageUsage(agg[c].freshResults[j])

\* C37: DeleteKey(id) removes id's key record, id's usage record and id's membership in
\* the key list and nothing else: every other key keeps its record, its cached usage
\* record and its membership; BatchDeleteKeys(ids) reports success + failed = len(ids)
\* and touches no key that is not named in ids.
C37_DeleteFrame ==
    [][/\ \A id \in KeyIds :
             id \in hist'.deleted \ hist.deleted =>
                /\ store' = store \ {id}
                /\ DOMAIN keyData' = DOMAIN keyData \ {id}
                /\ usageCache'[id] = NoUsage
                /\ \A k \in KeyIds \ {id} :
                      /\ usageCache'[k] = usageCache[k]
                      /\ k \in DOMAIN keyData => keyData'[k] = keyData[k]
       /\ (calc' # calc /\ calc'.op = "BatchDeleteKeys") =>
             /\ calc'.out.Success + calc'.out.Failed = Len(calc'.ids)
             /\ \A k \in KeyIds \ {calc'.ids[j] : j \in 1..Len(calc'.ids)} :
                   /\ (k \in store') = (k \in store)
                   /\ usageCache'[k] = usageCache[k]
                   /\ (k \in DOMAIN keyData') = (k \in DOMAIN keyData)
                   /\ k \in DOMAIN keyData => keyData'[k] = keyData[k]]_vars

\* one key has been deleted by DeleteKey while another key is still listed with its
\* record and its cached usage, and a BatchDeleteKeys request of two identifiers has
\* reported one success and one failure
C37_Witness ==
    /\ hist.deleted # {}
    /\ \E k \in store \ hist.deleted : k \in DOMAIN keyData /\ usageCache[k] # NoUsage
    /\ calc.op = "BatchDeleteKeys"
    /\ Len(calc.ids) = 2
    /\ calc.out.Success = 1
    /\ calc.out.Failed = 1

\* the cookie of the request names a session that is stored and whose expiry time has not
\* passed
StoredUnexpired(req) ==
    /\ req.cookie # NoCookie
    /\ sessions[req.cookie] # NoSession
    /\ now <= sessions[req.cookie]

\* the cookie of the request names a session that is stored and whose expiry time has
\* passed
Expired(req) ==
    /\ req.cookie # NoCookie
    /\ sessions[req.cookie] # NoSession
    /\ now > sessions[req.cookie]

\* the request carries "Authorization: Bearer <token>" with a token that the secret has
\* signed and that has not expired
ValidBearer(req) ==
    /\ req.header.kind = "bearer"
    /\ req.header.token.signed
    /\ now < req.header.token.exp

\* C38: with an admin password configured, a request to a protected /api route reaches
\* its handler only if it carries the cookie of a stored, unexpired session or a valid
\* bearer JWT, and otherwise it is answered with 401 and the handler is not run; a
\* session whose expiry time has passed is not accepted and is deleted from the store
\* when it is validated; without an admin password every request is let through.
C38_AuthGate ==
    [][(calc' # calc /\ calc'.op = "request") =>
          LET req == calc'.req IN
          /\ (env.adminPassword # "" /\ req.path \in ProtectedRoutes) =>
                /\ calc'.handler => (StoredUnexpired(req) \/ ValidBearer(req))
                /\ ~(StoredUnexpired(req) \/ ValidBearer(req)) =>
                      (calc'.status = 401 /\ ~calc'.handler)
                /\ (Expired(req) /\ ~ValidBearer(req)) => ~calc'.handler
                /\ (Expired(req) /\ calc'.read) => sessions'[req.cookie] = NoSession
                /\ \A id \in SessionIds :
                      sessions'[id] # sessions[id] => (id = req.cookie /\ Expired(req))
          /\ env.adminPassword = "" =>
                /\ calc'.status = 200
                /\ calc'.handler = (req.path \in ProtectedRoutes)
                /\ sessions' = sessions]_vars

\* with an admin password configured, the last request to a protected route carried the
\* cookie of a session whose expiry time had passed and no Authorization header: it was
\* answered with 401, its handler did not run, and the session is gone from the store
C38_Witness ==
    /\ env.adminPassword # ""
    /\ calc.op = "request"
    /\ calc.req.path \in ProtectedRoutes
    /\ calc.req.header.kind = "none"
    /\ calc.read
    /\ now > 0
    /\ calc.status = 401
    /\ ~calc.handler
    /\ sessions[calc.req.cookie] = NoSession

\* the calls of the fixed-timeout BatchProcess that can get no further result although
\* results are missing: the timer has fired, or a SubmitTask has failed
CutShort ==
    {c \in Calls : /\ pc[c] = "fixedCollect"
                   /\ bp[c].received < Len(agg[c].uncachedKeys)
                   /\ (bp[c].ctxDone \/ hist.queueFull[c] # {})}

\* C39: in the BatchProcess with the fixed 30-second timeout, when the timeout fires
\* before all results have arrived, or when a SubmitTask has failed so that fewer than
\* len(keys) results can arrive, the collection loop is left and the function returns.
C39_LoopIsLeft ==
    \A c \in Calls : (c \in CutShort) ~> (pc[c] = "fixedDone")

====
